---- MODULE Spec2Model ----
(***************************************************************************)
(* State-machine model of the assistance-operation orchestration engine of *)
(* tud-assistance-backbone: registered operations of the peer              *)
(* collaboration and greeting assistance types, the execution engine       *)
(* (AssistanceOperation.execute / _process_assistance_result), the         *)
(* dispatcher entry points of service/assistance.py, and the scheduler     *)
(* store swept by the periodic tick of main.py.                            *)
(*                                                                         *)
(* Abstractions: identifiers (a_id, ao_id, scheduled-entry _id) are fresh  *)
(* naturals instead of UUIDs; an assistance object is reduced to its       *)
(* recipient, the key of its first parameter, its type and, for state      *)
(* updates, the state it carries; message texts are dropped; the maps of   *)
(* received objects (user id -> value) are reduced to their key sets; time *)
(* is an integer number of seconds.                                        *)
(***************************************************************************)
EXTENDS Integers, Sequences, FiniteSets, TLC

VARIABLES
    assistance,     \* Mongo collection "assistance": a_id -> stored record
    objects,        \* Mongo collection "assistance_objects": ao_id -> object
    operations,     \* Mongo collection "assistance_operations", in insertion order
    op_counter,     \* number of scheduler entries ever inserted (_id source)
    now,            \* current_datetime(), in seconds
    settings,       \* debug settings read by the scheduler
    last,           \* record of the most recent handler invocation
    budget,         \* remaining number of external invocations
    pending,        \* invocations of a second worker between read and write
    requested,      \* a_id -> number of executions of a request-solution operation
    registry        \* _registered_operations of a process definition under construction

vars == <<assistance, objects, operations, op_counter, now, settings, last, budget, pending,
          requested, registry>>

----------------------------------------------------------------------------
(* Bounds of the exploration. *)

MaxInvocations == 2
MaxTime == 100
MaxGroupInvocations == 4
MaxSweepInvocations == 2
MaxRetryInvocations == 1
MaxTimeRetry == 17000
MaxRaceInvocations == 4
MaxStaleInvocations == 2
MaxTimeSweep == 3610
MaxChainInvocations == 1
MaxChained == 2
MaxLegacyInvocations == 2
MaxOutageInvocations == 3
MaxRegistrations == 2
MaxSteps == 2
MaxContextInvocations == 1
MaxAdded == 2
MaxAbsentInvocations == 4
MaxStateUpdates == 2
MaxPhases == 2
MaxResolutions == 2
MaxProgressInvocations == 3
MaxTerminalInvocations == 5
MaxDepth == 3

----------------------------------------------------------------------------
(* Vocabulary. *)

None == "None"

INITIATED == "initiated"
IN_PROGRESS == "in_progress"
ABORTED == "aborted"
COMPLETED == "completed"

TRIGGERED_OPERATION == "TRIGGERED_OPERATION"
SCHEDULED_OPERATION == "SCHEDULED_OPERATION"

ASSISTANCE_OBJECT == "assistance_object"
ASSISTANCE_RESPONSE_OBJECT == "assistance_response_object"

ASSISTANCE_OPERATION_KEY_INITIATION == "initiation"

Users == {"u1", "u2"}

PEER == "peer_collaboration"
GREETING == "greeting"

MAX_NUMBER_OF_RETRIES == 17

\* AssistanceState; phase 0 and step None stand for absent values.
AssistanceState(status, phase, step) == [status |-> status, phase |-> phase, step |-> step]

NoState == AssistanceState(None, 0, None)

TerminalStatus == {COMPLETED, ABORTED}

\* SubsequentAssistanceOperation
SubsequentAssistanceOperation(type, operation_key, time) ==
    [type |-> type, operation_key |-> operation_key, time_to_invocation_in_s |-> time]

\* AssistanceObject reduced to recipient, first parameter key, type and carried state.
AssistanceObject(user_id, key) ==
    [user_id |-> user_id, key |-> key, type |-> None, state |-> NoState, a_id |-> 0]

----------------------------------------------------------------------------
(* Sequence helpers. *)

RECURSIVE SeqFilterKeys(_, _)
SeqFilterKeys(s, type) ==
    IF s = <<>> THEN <<>>
    ELSE IF Head(s).type = type
         THEN <<Head(s)>> \o SeqFilterKeys(Tail(s), type)
         ELSE SeqFilterKeys(Tail(s), type)

RECURSIVE SeqWithout(_, _)
SeqWithout(s, x) ==
    IF s = <<>> THEN <<>>
    ELSE IF Head(s) = x THEN SeqWithout(Tail(s), x)
         ELSE <<Head(s)>> \o SeqWithout(Tail(s), x)

Range(s) == {s[i] : i \in DOMAIN s}

\* a local variable: v is evaluated once and bound in F
Let(v, F(_)) == F(v)

RECURSIVE Concat(_)
Concat(ss) == IF ss = <<>> THEN <<>> ELSE Head(ss) \o Concat(Tail(ss))

----------------------------------------------------------------------------
(* Registered operations.  An operation descriptor carries the constructor *)
(* arguments of AssistanceOperation; absent optional lists are modelled by *)
(* a flag next to the (then empty) value.                                  *)

AssistanceOperation(cls) ==
    [cls |-> cls,
     target_status |-> None,
     subsequent_declared |-> FALSE,
     subsequent_operations |-> <<>>,
     assistance_in_progress_required |-> FALSE,
     delete_scheduled_operations |-> FALSE,
     reset_next_operation_keys |-> FALSE,
     prevent_progress |-> FALSE,
     related_set |-> FALSE,
     related_user_ids |-> <<>>,
     status_to_send_set |-> FALSE,
     state_update_status_to_send |-> {},
     send_state_update_to_related_users |-> TRUE,
     send_keys |-> <<>>,
     object_key_to_wait_for |-> None,
     received_objects_parameter_key |-> None,
     expected_object_value |-> None,
     waiting_objects |-> <<>>,
     final_objects |-> <<>>]

\* post_init of the operation classes: every class but the two initiation
\* classes forces assistance_in_progress_required.
post_init(op) ==
    IF op.cls \in {"PeerInitiation", "GreetingInitiation"} THEN op
    ELSE [op EXCEPT !.assistance_in_progress_required = TRUE]

WithSubsequent(op, subs) ==
    [op EXCEPT !.subsequent_declared = TRUE, !.subsequent_operations = subs]

InProgress(cls) == post_init([AssistanceOperation(cls) EXCEPT !.target_status = IN_PROGRESS])

SendObjectsToUsers(keys) == [InProgress("SendObjectsToUsers") EXCEPT !.send_keys = keys]

HandleWaitForObject(target, wait_for, received_key, expected, waiting, final) ==
    WithSubsequent(
        [post_init(AssistanceOperation("HandleWaitForObject")) EXCEPT
            !.target_status = target,
            !.object_key_to_wait_for = wait_for,
            !.received_objects_parameter_key = received_key,
            !.expected_object_value = expected,
            !.waiting_objects = waiting,
            !.final_objects = final,
            !.delete_scheduled_operations = TRUE],
        <<>>)

Triggered(key) == <<SubsequentAssistanceOperation(TRIGGERED_OPERATION, key, 0)>>

Scheduled(key, time) == <<SubsequentAssistanceOperation(SCHEDULED_OPERATION, key, time)>>

\* AssistancePhaseStep; schedule 0 stands for "no schedule".
AssistancePhaseStep(operation_key, operation, schedule) ==
    [operation_key |-> operation_key, operation |-> operation, schedule |-> schedule]

FORWARD == "forward_message_to_peer"

\* the phases of PeerCollaborationAssistance.__init__, one tuple of steps per phase
PeerPhases ==
    <<
        << AssistancePhaseStep(ASSISTANCE_OPERATION_KEY_INITIATION,
               [AssistanceOperation("PeerInitiation") EXCEPT !.target_status = IN_PROGRESS], 0),
           AssistancePhaseStep("task_description_step_2",
               SendObjectsToUsers(<<"system_message">>), 80),
           AssistancePhaseStep("task_description_step_3",
               InProgress("SendGroupFormationResultToPeers"), 10) >>,
        << AssistancePhaseStep("introduction_step_1",
               SendObjectsToUsers(<<"message", "system_message">>), 5),
           AssistancePhaseStep("introduction_step_2",
               WithSubsequent(SendObjectsToUsers(<<"message", "operation">>), Triggered(FORWARD)), 5),
           AssistancePhaseStep("introduction_step_3",
               WithSubsequent(SendObjectsToUsers(<<"message">>), Triggered(FORWARD)), 80),
           AssistancePhaseStep("introduction_step_4",
               WithSubsequent(SendObjectsToUsers(<<"system_message">>), Triggered(FORWARD)), 5) >>,
        << AssistancePhaseStep("individual_solution_development_step_1",
               WithSubsequent(InProgress("SendGroupInformation"), <<>>), 80),
           AssistancePhaseStep("individual_solution_development_step_2",
               SendObjectsToUsers(<<"message", "system_message", "system_message",
                                    "solution_template", "operation", "operation", "operation">>), 2),
           AssistancePhaseStep("individual_solution_development_step_3",
               WithSubsequent(SendObjectsToUsers(<<"operation">>),
                              Triggered("individual_solution_development_step_6")), 300),
           AssistancePhaseStep("individual_solution_development_step_4",
               WithSubsequent(SendObjectsToUsers(<<"system_message">>),
                              Triggered("individual_solution_development_step_6")), 780),
           AssistancePhaseStep("individual_solution_development_step_5",
               WithSubsequent(InProgress("RequestSolution"),
                              Scheduled("individual_solution_development_step_5", 2)), 120),
           AssistancePhaseStep("individual_solution_development_step_6",
               HandleWaitForObject(IN_PROGRESS, "solution_response", "solutions", None,
                                   <<"operation", "operation", "system_message">>,
                                   <<"operation", "operation">>), 0) >>,
        << AssistancePhaseStep("review_solution_peer_step_1",
               WithSubsequent(InProgress("SendSolutionToPeers"), <<>>), 1),
           AssistancePhaseStep("review_solution_peer_step_2",
               WithSubsequent(SendObjectsToUsers(<<"operation">>),
                              Scheduled("collaboration_step_1", 180)), 120),
           AssistancePhaseStep("review_solution_peer_step_3",
               HandleWaitForObject(IN_PROGRESS, "state_update_response", "read_solution_progress",
                                   "standby", <<"operation", "system_message">>, <<>>), 0) >>,
        << AssistancePhaseStep("collaboration_step_1",
               WithSubsequent(SendObjectsToUsers(<<"operation", "message", "operation">>),
                              Triggered(FORWARD)), 1),
           AssistancePhaseStep("collaboration_step_2",
               WithSubsequent(SendObjectsToUsers(<<"system_message", "system_message">>),
                              Triggered(FORWARD)), 5),
           AssistancePhaseStep("collaboration_step_3",
               WithSubsequent(SendObjectsToUsers(<<"system_message">>), Triggered(FORWARD)), 300),
           AssistancePhaseStep("collaboration_step_4",
               WithSubsequent(SendObjectsToUsers(<<"system_message">>), Triggered(FORWARD)), 300),
           AssistancePhaseStep("collaboration_step_5",
               WithSubsequent(SendObjectsToUsers(<<"message", "system_message">>),
                              Triggered(FORWARD)), 300) >>,
        << AssistancePhaseStep("solution_proposal_step_1",
               WithSubsequent(SendObjectsToUsers(<<"operation", "message", "system_message",
                                                   "operation", "operation">>),
                              Triggered("solution_proposal_step_4")), 300),
           AssistancePhaseStep("solution_proposal_step_2",
               WithSubsequent(SendObjectsToUsers(<<"system_message">>),
                              Triggered("solution_proposal_step_4")), 480),
           AssistancePhaseStep("solution_proposal_step_3",
               WithSubsequent(InProgress("RequestSolution"),
                              Scheduled("solution_proposal_step_3", 2)), 120),
           AssistancePhaseStep("solution_proposal_step_4",
               HandleWaitForObject(COMPLETED, "solution_response", "final_solutions", None,
                                   <<"operation", "operation", "message", "message">>,
                                   <<"operation", "operation", "message", "message">>), 0) >>
    >>

----------------------------------------------------------------------------
(* Registration (AssistanceProcess._register_phases / _register_operation). *)

FlatSteps(phases) ==
    Concat([p \in 1..Len(phases) |->
        [i \in 1..Len(phases[p]) |-> [phase_number |-> p, step |-> phases[p][i]]]])

\* variant: the last step of a phase is not linked to the next phase
_register_phases_WithinPhase(phases) ==
    LET flat == FlatSteps(phases)
        N == Len(flat)
    IN [i \in 1..N |->
          LET step == flat[i].step
              op0 == step.operation
              op1 == IF i # 1 THEN [op0 EXCEPT !.assistance_in_progress_required = TRUE] ELSE op0
              next_step == flat[i + 1].step
              follow_up == IF next_step.schedule = 0
                           THEN SubsequentAssistanceOperation(TRIGGERED_OPERATION,
                                                              next_step.operation_key, 0)
                           ELSE SubsequentAssistanceOperation(SCHEDULED_OPERATION,
                                                              next_step.operation_key,
                                                              next_step.schedule)
          IN [operation_key |-> step.operation_key,
              phase_number |-> flat[i].phase_number,
              step_number |-> i,
              operation |-> IF i = N \/ flat[i + 1].phase_number # flat[i].phase_number THEN op1
                            ELSE WithSubsequent(op1, Append(op1.subsequent_operations, follow_up))]]

\* For every step but the first the operation requires an instance in
\* progress; for every step but the last the following step is appended to
\* the subsequent operations, TRIGGERED if it has no schedule and SCHEDULED
\* with its delay otherwise.
_register_phases(phases) ==
    LET flat == FlatSteps(phases)
        N == Len(flat)
    IN [i \in 1..N |->
          LET step == flat[i].step
              op0 == step.operation
              op1 == IF i # 1 THEN [op0 EXCEPT !.assistance_in_progress_required = TRUE] ELSE op0
              next_step == flat[i + 1].step
              follow_up == IF next_step.schedule = 0
                           THEN SubsequentAssistanceOperation(TRIGGERED_OPERATION,
                                                              next_step.operation_key, 0)
                           ELSE SubsequentAssistanceOperation(SCHEDULED_OPERATION,
                                                              next_step.operation_key,
                                                              next_step.schedule)
          IN [operation_key |-> step.operation_key,
              phase_number |-> flat[i].phase_number,
              step_number |-> i,
              operation |-> IF i = N THEN op1
                            ELSE WithSubsequent(op1, Append(op1.subsequent_operations, follow_up))]]

PeerSteps == _register_phases(PeerPhases)

PeerStepKeys == {PeerSteps[i].operation_key : i \in DOMAIN PeerSteps}

\* registered_operation_keys_to_step_number
registered_operation_keys_to_step_number(key) ==
    CHOOSE i \in DOMAIN PeerSteps : PeerSteps[i].operation_key = key

ForwardMessageToPeer ==
    [post_init(AssistanceOperation("ForwardMessageToPeer")) EXCEPT !.prevent_progress = TRUE]

SCREENCAST_HINT == "screencast_hint_operation"

GreetingInitiation ==
    [AssistanceOperation("GreetingInitiation") EXCEPT !.target_status = COMPLETED]

ToolcheckScreencastHint ==
    WithSubsequent(
        [post_init(AssistanceOperation("ToolcheckScreencastHint")) EXCEPT
            !.target_status = COMPLETED,
            !.delete_scheduled_operations = TRUE,
            !.send_state_update_to_related_users = FALSE],
        <<>>)

\* the keys of ASSISTANCE_TYPES, restricted to the two modelled process types,
\* in the order of the dictionary
ASSISTANCE_TYPES == <<GREETING, PEER>>

\* membership in AssistanceProcess._registered_operations of a freshly
\* constructed process
is_operation_registered(type, key) ==
    IF type = PEER THEN key \in PeerStepKeys \cup {FORWARD}
    ELSE key \in {ASSISTANCE_OPERATION_KEY_INITIATION, SCREENCAST_HINT}

\* the operation a process of the type registers under the key in its
\* constructor, with the directives declared there
DeclaredOperation(type, key) ==
    IF type = PEER
    THEN IF key = FORWARD THEN ForwardMessageToPeer
         ELSE PeerSteps[registered_operation_keys_to_step_number(key)].operation
    ELSE IF key = ASSISTANCE_OPERATION_KEY_INITIATION THEN GreetingInitiation
         ELSE ToolcheckScreencastHint

\* variant: ASSISTANCE_TYPES holds one process per type, so that an operation
\* executed before is found as that execution left it
RegisteredOperation_Shared(type, key) ==
    IF pending # <<>> /\ <<type, key>> \in DOMAIN pending[1].live
    THEN pending[1].live[<<type, key>>]
    ELSE DeclaredOperation(type, key)

\* ASSISTANCE_TYPES[type]()._registered_operations[key]: every entry of
\* ASSISTANCE_TYPES constructs a new process, whose operations are new objects
RegisteredOperation(type, key) == DeclaredOperation(type, key)

\* _registered_operation_keys_to_phase_number, 0 when the key has no phase
PhaseNumber(type, key) ==
    IF type = PEER /\ key \in PeerStepKeys
    THEN PeerSteps[registered_operation_keys_to_step_number(key)].phase_number
    ELSE 0

\* the dictionary d with d[key] = value
Put(d, key, value) == [k \in DOMAIN d \cup {key} |-> IF k = key THEN value ELSE d[k]]

\* AssistanceProcess._register_operation on the dictionary registered: the
\* dictionary afterwards and the exception raised
_register_operation(registered, operation_key, operation) ==
    IF operation_key \in DOMAIN registered
    THEN [operations |-> registered, err |-> "AssistanceOperationException"]
    ELSE [operations |-> Put(registered, operation_key, operation), err |-> None]

\* the loop of _register_phases that fills the local operations_to_register:
\* a key is refused when an earlier step of the same call has it
RECURSIVE operations_to_register(_, _)
operations_to_register(steps, collected) ==
    IF steps = <<>> THEN [operations |-> collected, err |-> None]
    ELSE IF Head(steps).operation_key \in DOMAIN collected
         THEN [operations |-> collected, err |-> "AssistanceOperationException"]
    ELSE operations_to_register(Tail(steps),
                                Put(collected, Head(steps).operation_key, Head(steps).operation))

\* _registered_operations after _register_phases: "|=" merges the local
\* dictionary into it, the local value winning
MergeRegistered(registered, steps) ==
    Let(operations_to_register(steps, <<>>), LAMBDA r :
        IF r.err # None THEN [operations |-> registered, err |-> r.err]
        ELSE [operations |-> [k \in DOMAIN registered \cup DOMAIN r.operations |->
                                 IF k \in DOMAIN r.operations THEN r.operations[k]
                                 ELSE registered[k]],
              err |-> None])

----------------------------------------------------------------------------
(* Persistence (service/db).  A world is the content of the three          *)
(* collections together with the outcome of the running invocation; the    *)
(* operators below thread it through a handler so that the writes made     *)
(* before an exception stay in place.                                      *)

World(a, o, ops, c) ==
    [assistance |-> a, objects |-> o, operations |-> ops, op_counter |-> c,
     err |-> None, log |-> <<>>, unreachable |-> {}]

Failed(w) == w.err # None

Raise(w, e) == [w EXCEPT !.err = e]

\* Assistance.create_with_default_parameters: a model object not yet stored
NewAssistance(user_id, new_objects) ==
    [a_id |-> 0, type_key |-> None, user_id |-> user_id,
     assistance_state |-> NoState, next_operation_keys |-> <<>>,
     assistance_objects |-> <<>>, related_user_ids |-> <<>>,
     user_states |-> [u \in Users |-> NoState],
     received |-> [solutions |-> <<>>, final_solutions |-> <<>>,
                   read_solution_progress |-> <<>>],
     retries |-> 0,
     new_objects |-> new_objects]

Exists(w, a_id) == a_id \in DOMAIN w.assistance

\* the stored document without the transient list of objects to add
Stored(a) ==
    [a_id |-> a.a_id, type_key |-> a.type_key, user_id |-> a.user_id,
     assistance_state |-> a.assistance_state, next_operation_keys |-> a.next_operation_keys,
     assistance_objects |-> a.assistance_objects, related_user_ids |-> a.related_user_ids,
     user_states |-> a.user_states, received |-> a.received, retries |-> a.retries]

\* read_assistance_by_a_id for an existing id, as a model object
read_assistance_by_a_id(w, a_id) ==
    LET d == w.assistance[a_id]
    IN [a_id |-> d.a_id, type_key |-> d.type_key, user_id |-> d.user_id,
        assistance_state |-> d.assistance_state, next_operation_keys |-> d.next_operation_keys,
        assistance_objects |-> d.assistance_objects, related_user_ids |-> d.related_user_ids,
        user_states |-> d.user_states, received |-> d.received, retries |-> d.retries,
        new_objects |-> <<>>]

\* create_assistance_objects: ids of the objects inserted for a_id
NewObjectIds(w, new_objects) ==
    [i \in 1..Len(new_objects) |-> Len(w.objects) + i]

create_assistance_objects(w, new_objects, a_id) ==
    [w EXCEPT !.objects = @ \o [i \in 1..Len(new_objects) |->
                                   [new_objects[i] EXCEPT !.a_id = a_id]]]

\* create_assistance: result is <<world, a_id>>
create_assistance(w, a) ==
    LET a_id == Len(w.assistance) + 1
        w1 == create_assistance_objects(w, a.new_objects, a_id)
        doc == Stored([a EXCEPT !.a_id = a_id,
                                !.assistance_objects = NewObjectIds(w, a.new_objects)])
    IN [w1 EXCEPT !.assistance = Append(@, doc)]

\* variant: the guard of the update never finds a terminal instance
TerminalCheck_Absent(doc) == FALSE

\* the guard "assistance_state.status is COMPLETED or ABORTED" of
\* update_assistance_adding_assistance_objects
TerminalCheck(doc) == doc.assistance_state.status \in TerminalStatus

\* variant: the replacement keeps the received objects stored meanwhile
update_assistance_adding_assistance_objects_Merging(w, a) ==
    IF ~Exists(w, a.a_id) THEN Raise(w, "AssistanceNotExistsException")
    ELSE IF TerminalCheck(w.assistance[a.a_id])
         THEN Raise(w, "CompletedAssistanceModifyException")
    ELSE [create_assistance_objects(w, a.new_objects, a.a_id) EXCEPT
             !.assistance[a.a_id] = Stored([a EXCEPT
                 !.received = w.assistance[a.a_id].received,
                 !.assistance_objects = w.assistance[a.a_id].assistance_objects
                                            \o NewObjectIds(w, a.new_objects)])]

\* update_assistance_adding_assistance_objects
update_assistance_adding_assistance_objects(w, a) ==
    IF ~Exists(w, a.a_id) THEN Raise(w, "AssistanceNotExistsException")
    ELSE LET existing == w.assistance[a.a_id]
         IN IF TerminalCheck(existing) THEN Raise(w, "CompletedAssistanceModifyException")
            ELSE LET w1 == create_assistance_objects(w, a.new_objects, a.a_id)
                     doc == Stored([a EXCEPT !.assistance_objects =
                                existing.assistance_objects \o NewObjectIds(w, a.new_objects)])
                 IN [w1 EXCEPT !.assistance[a.a_id] = doc]

\* variant: the guard of the $push never finds a terminal instance
TerminalCheckByAId_Absent(doc) == FALSE

\* the guard "assistance_state.status is COMPLETED or ABORTED" of
\* update_assistance_by_a_id_adding_assistance_objects
TerminalCheckByAId(doc) == doc.assistance_state.status \in TerminalStatus

\* update_assistance_by_a_id_adding_assistance_objects
update_assistance_by_a_id_adding_assistance_objects(w, a_id, response_objects) ==
    IF ~Exists(w, a_id) THEN Raise(w, "AssistanceNotExistsException")
    ELSE LET existing == w.assistance[a_id]
         IN IF TerminalCheckByAId(existing) THEN Raise(w, "CompletedAssistanceModifyException")
            ELSE LET w1 == create_assistance_objects(w, response_objects, a_id)
                 IN [w1 EXCEPT !.assistance[a_id].assistance_objects =
                                   @ \o NewObjectIds(w, response_objects)]

\* update_assistance_by_a_id_reset_next_operation_keys: unguarded $set
update_assistance_by_a_id_reset_next_operation_keys(w, a_id) ==
    IF Exists(w, a_id) THEN [w EXCEPT !.assistance[a_id].next_operation_keys = <<>>] ELSE w

RECURSIVE SeqSelect(_, _)
SeqSelect(s, keep) ==
    IF s = <<>> THEN <<>>
    ELSE IF Head(s).id \in keep THEN <<Head(s)>> \o SeqSelect(Tail(s), keep)
         ELSE SeqSelect(Tail(s), keep)

\* variant: the bulk delete spares the entry scheduled last for the instance
delete_assistance_operations_by_a_id_Sparing(w, a_id) ==
    [w EXCEPT !.operations =
        SeqSelect(@, {@[i].id : i \in {j \in DOMAIN @ :
            @[j].a_id # a_id \/ \A k \in DOMAIN @ : @[k].a_id = a_id => k <= j}})]

\* delete_assistance_operations_by_a_id
delete_assistance_operations_by_a_id(w, a_id) ==
    [w EXCEPT !.operations =
        SeqSelect(@, {@[i].id : i \in {j \in DOMAIN @ : @[j].a_id # a_id}})]

\* a delete that leaves the entry stored
delete_assistance_operation_Kept(w, id) == w

\* delete_assistance_operation
delete_assistance_operation(w, id) ==
    [w EXCEPT !.operations = SeqSelect(@, {@[i].id : i \in DOMAIN @} \ {id})]

\* create_assistance_operation_for_scheduled_invocation
create_assistance_operation_for_scheduled_invocation(w, type, key, a_id, time) ==
    [w EXCEPT !.op_counter = @ + 1,
              !.operations = Append(@, [id |-> w.op_counter + 1,
                                        assistance_type_key |-> type,
                                        assistance_operation_key |-> key,
                                        a_id |-> a_id,
                                        time_of_invocation |-> now + time])]

\* variant: the date is not looked at
read_assistance_operation_by_time_of_invocation_before_date_All(ops, date) == ops

read_assistance_operation_by_time_of_invocation_before_date_Strict(ops, date) ==
    SeqSelect(ops, {ops[i].id : i \in {j \in DOMAIN ops : ops[j].time_of_invocation < date}})

\* read_assistance_operation_by_time_of_invocation_before_date
read_assistance_operation_by_time_of_invocation_before_date(ops, date) ==
    SeqSelect(ops, {ops[i].id : i \in {j \in DOMAIN ops : ops[j].time_of_invocation <= date}})

----------------------------------------------------------------------------
(* Contexts (AssistanceContext) and the operation classes.                  *)

NoStatement == [user |-> None, verb |-> None, experiences |-> 0]

\* AssistanceContext; a_id 0, NoStatement, has_objects FALSE, initiator None and
\* empty collaborators stand for parameters missing from the context.
AssistanceContext(a_id) ==
    [a_id |-> a_id, statement |-> NoStatement, has_objects |-> FALSE,
     assistance_objects |-> <<>>, initiator |-> None, collaborators |-> <<>>]

ResponseContext(a_id, response_objects) ==
    [AssistanceContext(a_id) EXCEPT !.has_objects = TRUE, !.assistance_objects = response_objects]

HasStatement(ctx) == ctx.statement # NoStatement

\* AssistanceOperation.is_applicable: the instance is looked up but the result
\* of the lookup is not inspected; only a missing a_id makes it return False.
base_is_applicable(w, op, ctx) ==
    IF ~op.assistance_in_progress_required THEN TRUE
    ELSE IF ctx.a_id = 0 THEN FALSE
    ELSE TRUE

ContainsKey(response_objects, key) ==
    \E i \in DOMAIN response_objects : response_objects[i].key = key

\* is_applicable of the operation classes
is_applicable(w, op, ctx) ==
    CASE op.cls = "ForwardMessageToPeer" ->
            base_is_applicable(w, op, ctx) /\ ctx.has_objects
      [] op.cls = "HandleWaitForObject" ->
            /\ ~HasStatement(ctx)
            /\ ctx.has_objects
            /\ ContainsKey(ctx.assistance_objects, op.object_key_to_wait_for)
      [] op.cls = "PeerInitiation" ->
            /\ ~HasStatement(ctx)
            /\ ctx.initiator # None
            /\ ctx.collaborators # <<>>
      [] op.cls = "GreetingInitiation" ->
            HasStatement(ctx) /\ ctx.statement.verb = "logged_in"
      [] OTHER -> base_is_applicable(w, op, ctx)

\* GreetingAssistanceInitiationOperation.is_applicable without a statement id:
\* the handler "except (AssistanceParameterException | AttributeError)" does
\* not name an exception class, so matching the raised exception fails.
is_applicable_error(op, ctx) ==
    IF op.cls = "GreetingInitiation" /\ ~HasStatement(ctx) THEN "TypeError" ELSE None

\* the exception that leaves is_applicable when the store cannot be reached
\* while an operation of the type is evaluated (w.unreachable): the greeting
\* initiation reads the statement inside the try whose except clause cannot
\* be matched, and the base is_applicable reads the instance outside of what
\* its except clause catches.  The peer initiation and the wait for an object
\* decide on the context alone.
StoreError(w, type, op, ctx) ==
    IF type \notin w.unreachable THEN None
    ELSE IF op.cls = "GreetingInitiation" THEN (IF HasStatement(ctx) THEN "TypeError" ELSE None)
    ELSE IF op.cls \in {"PeerInitiation", "HandleWaitForObject"} THEN None
    ELSE IF op.assistance_in_progress_required /\ ctx.a_id # 0 THEN "ConnectionFailure"
    ELSE None

\* outcome of _execute: an exception, or the (possibly absent) result together
\* with the directives the operation left on itself
Executed(op, produced) == [err |-> None, none |-> FALSE, assistance |-> produced, op |-> op]

ExecutedNone(op) == [err |-> None, none |-> TRUE, assistance |-> <<>>, op |-> op]

ExecuteRaised(op, e) == [err |-> e, none |-> TRUE, assistance |-> <<>>, op |-> op]

\* exception raised while the operation loads its instance and the related
\* users, None if both are available
LoadError(w, ctx, needs_related) ==
    IF ctx.a_id = 0 THEN "AssistanceParameterException"
    ELSE IF ~Exists(w, ctx.a_id) THEN "AttributeError"
    ELSE IF needs_related /\ w.assistance[ctx.a_id].related_user_ids = <<>>
         THEN "AssistanceParameterException"
    ELSE None

ObjectsFor(keys, user_id) == [i \in 1..Len(keys) |-> AssistanceObject(user_id, keys[i])]

ObjectsForUsers(key, users) == [i \in 1..Len(users) |-> AssistanceObject(users[i], key)]

\* fibonacci(start, length) of the external fibonacci package: the sequence
\* start, start + 1, then sums of the two preceding terms
RECURSIVE fibonacci(_, _)
fibonacci(start, length) ==
    IF length = 0 THEN <<>>
    ELSE IF length = 1 THEN <<start>>
    ELSE IF length = 2 THEN <<start, start + 1>>
    ELSE Let(fibonacci(start, length - 1),
             LAMBDA f : Append(f, f[length - 1] + f[length - 2]))

\* PeerCollaborationAssistanceForwardMessageToPeerOperation._execute: every
\* received object must carry a message_response parameter
ForwardMessageToPeer_execute(w, op, ctx) ==
    LET a == read_assistance_by_a_id(w, ctx.a_id)
        received == ctx.assistance_objects
        forwarded == Concat([i \in 1..Len(received) |->
            ObjectsForUsers("user_message", SeqWithout(a.related_user_ids, received[i].user_id))])
    IN IF \E i \in DOMAIN received : received[i].key # "message_response"
       THEN ExecuteRaised(op, "AssistanceParameterException")
       ELSE Executed(op, <<[a EXCEPT !.new_objects = forwarded]>>)

\* PeerCollaborationAssistanceHandleWaitForObjectOperation._execute
HandleWaitForObject_execute(w, op, ctx) ==
    LET a == read_assistance_by_a_id(w, ctx.a_id)
        provided == ctx.assistance_objects[CHOOSE i \in DOMAIN ctx.assistance_objects :
            /\ ctx.assistance_objects[i].key = op.object_key_to_wait_for
            /\ \A j \in 1..(i - 1) :
                  ctx.assistance_objects[j].key # op.object_key_to_wait_for]
        user_id == provided.user_id
        op1 == [op EXCEPT !.related_set = TRUE, !.related_user_ids = <<user_id>>]
        key == op.received_objects_parameter_key
        already == a.received[key]
        repeated_object_provision == user_id \in Range(already)
        received == IF repeated_object_provision THEN already ELSE Append(already, user_id)
        a1 == [a EXCEPT !.received[key] = received]
        all_solutions_provided == Len(received) = Len(a.related_user_ids)
    IN IF ~ContainsKey(ctx.assistance_objects, op.object_key_to_wait_for) THEN ExecutedNone(op)
       ELSE IF op.expected_object_value # None /\ provided.value # op.expected_object_value
            THEN ExecutedNone(op)
       ELSE IF all_solutions_provided
            THEN Executed([op1 EXCEPT !.prevent_progress = FALSE],
                          <<[a1 EXCEPT !.retries = 0,
                                       !.new_objects = ObjectsFor(op.final_objects, user_id)]>>)
       ELSE IF repeated_object_provision
            THEN ExecutedNone([op1 EXCEPT !.prevent_progress = TRUE])
       ELSE Executed([op1 EXCEPT !.prevent_progress = TRUE],
                     <<[a1 EXCEPT !.new_objects = ObjectsFor(op.waiting_objects, user_id)]>>)

InitiationKeys ==
    <<"operation", "operation", "operation", "operation", "operation", "operation",
      "operation", "message", "message">>

\* PeerCollaborationAssistanceInitiationOperation._execute: one instance per
\* complete pair of collaborators
PeerInitiation_execute(w, op, ctx) ==
    LET related == ctx.collaborators
        pairs == Len(related) \div 2
        Pair(p) == <<related[2 * p - 1], related[2 * p]>>
    IN Executed(op, [p \in 1..pairs |->
           [NewAssistance(ctx.initiator,
                          ObjectsFor(InitiationKeys, Pair(p)[1]) \o
                          ObjectsFor(InitiationKeys, Pair(p)[2]))
               EXCEPT !.related_user_ids = Pair(p)]])

UserWentOn(a, user_id, step_number) ==
    /\ a.user_states[user_id] # NoState
    /\ a.user_states[user_id].step # None
    /\ registered_operation_keys_to_step_number(a.user_states[user_id].step) < step_number

RECURSIVE UsersNot(_, _, _)
UsersNot(users, a, step_number) ==
    IF users = <<>> THEN <<>>
    ELSE IF UserWentOn(a, Head(users), step_number) THEN UsersNot(Tail(users), a, step_number)
         ELSE <<Head(users)>> \o UsersNot(Tail(users), a, step_number)

RECURSIVE ReplaceDelay(_, _, _)
ReplaceDelay(subs, key, time) ==
    IF subs = <<>> THEN <<>>
    ELSE (IF Head(subs).type = SCHEDULED_OPERATION /\ Head(subs).operation_key = key
          THEN <<SubsequentAssistanceOperation(SCHEDULED_OPERATION, key, time)>>
          ELSE <<Head(subs)>>) \o ReplaceDelay(Tail(subs), key, time)

\* variant: the limit is compared with the number of the request itself
RetryLimitReached_Late(solution_request_number) ==
    solution_request_number > MAX_NUMBER_OF_RETRIES

\* the test "solution_request_number + 1 > MAX_NUMBER_OF_RETRIES"
RetryLimitReached(solution_request_number) ==
    solution_request_number + 1 > MAX_NUMBER_OF_RETRIES

\* PeerCollaborationAssistanceRequestSolutionOperation._execute
RequestSolution_execute(w, op, ctx, step) ==
    LET a == read_assistance_by_a_id(w, ctx.a_id)
        solution_request_number == a.retries + 1
        step_number == registered_operation_keys_to_step_number(step)
    IN IF RetryLimitReached(solution_request_number)
       THEN Executed([WithSubsequent(op, <<>>) EXCEPT
                          !.delete_scheduled_operations = TRUE,
                          !.reset_next_operation_keys = TRUE,
                          !.target_status = ABORTED],
                     <<[a EXCEPT !.new_objects =
                                     ObjectsForUsers("system_message", a.related_user_ids)]>>)
       ELSE IF step \notin PeerStepKeys THEN ExecutedNone(op)
       ELSE Executed([op EXCEPT !.subsequent_operations =
                          ReplaceDelay(@, step,
                              fibonacci(2, solution_request_number)[solution_request_number])],
                     <<[a EXCEPT !.retries = solution_request_number,
                                 !.new_objects = ObjectsForUsers("operation",
                                     UsersNot(a.related_user_ids, a, step_number))]>>)

\* PeerCollaborationAssistanceSendGroupFormationResultToPeersOperation._execute
SendGroupFormationResultToPeers_execute(w, op, ctx) ==
    LET a == read_assistance_by_a_id(w, ctx.a_id)
    IN Executed(op, <<[a EXCEPT !.new_objects = ObjectsForUsers("message", a.related_user_ids)]>>)

\* PeerCollaborationAssistanceSendGroupInformationOperation._execute
SendGroupInformation_execute(w, op, ctx) ==
    LET a == read_assistance_by_a_id(w, ctx.a_id)
    IN Executed(op, <<[a EXCEPT !.new_objects =
                                    ObjectsForUsers("system_message", a.related_user_ids)]>>)

UserIsAhead(a, user_id, step_number) ==
    /\ a.user_states[user_id] # NoState
    /\ a.user_states[user_id].step # None
    /\ ~(registered_operation_keys_to_step_number(a.user_states[user_id].step) <= step_number)

\* variant: nobody is filtered out
UsersUpTo_Everybody(users, a, step_number) == users

RECURSIVE UsersUpTo(_, _, _)
UsersUpTo(users, a, step_number) ==
    IF users = <<>> THEN <<>>
    ELSE IF UserIsAhead(a, Head(users), step_number) THEN UsersUpTo(Tail(users), a, step_number)
         ELSE <<Head(users)>> \o UsersUpTo(Tail(users), a, step_number)

\* PeerCollaborationAssistanceSendObjectsToUsersOperation._execute
SendObjectsToUsers_execute(w, op, ctx, step) ==
    LET a == read_assistance_by_a_id(w, ctx.a_id)
        user_ids_to_send_objects_to ==
            IF step \in PeerStepKeys
            THEN UsersUpTo(a.related_user_ids, a, registered_operation_keys_to_step_number(step))
            ELSE a.related_user_ids
        keys == op.send_keys
    IN IF keys = <<>> THEN ExecuteRaised(op, "AssistanceParameterException")
       ELSE Executed([op EXCEPT !.related_set = TRUE,
                                !.related_user_ids = user_ids_to_send_objects_to],
                     <<[a EXCEPT !.new_objects = Concat([i \in 1..Len(keys) |->
                            ObjectsForUsers(keys[i], user_ids_to_send_objects_to)])]>>)

\* PeerCollaborationAssistanceSendSolutionToPeersOperations._execute
SendSolutionToPeers_execute(w, op, ctx) ==
    LET a == read_assistance_by_a_id(w, ctx.a_id)
        solutions == a.received.solutions
    IN IF solutions = <<>> THEN ExecuteRaised(op, "AssistanceParameterException")
       ELSE Executed(op, <<[a EXCEPT !.new_objects = Concat([i \in 1..Len(solutions) |->
                ObjectsForUsers("peer_solution", SeqWithout(a.related_user_ids, solutions[i]))
                \o ObjectsFor(<<"operation", "message", "system_message">>, solutions[i])])]>>)

\* variant: a user with one experience is welcomed back
GreetingInitiation_execute_Strict(w, op, ctx) ==
    LET user_id == ctx.statement.user
        produced == <<NewAssistance(user_id, <<AssistanceObject(user_id, "message")>>)>>
    IN IF ctx.statement.experiences < 1
       THEN Executed([WithSubsequent(op, Scheduled(SCREENCAST_HINT, 5)) EXCEPT
                          !.target_status = IN_PROGRESS], produced)
       ELSE Executed(op, produced)

\* variant: a user with two experiences is greeted as on the first login
GreetingInitiation_execute_Late(w, op, ctx) ==
    LET user_id == ctx.statement.user
        produced == <<NewAssistance(user_id, <<AssistanceObject(user_id, "message")>>)>>
    IN IF ctx.statement.experiences <= 2
       THEN Executed([WithSubsequent(op, Scheduled(SCREENCAST_HINT, 5)) EXCEPT
                          !.target_status = IN_PROGRESS], produced)
       ELSE Executed(op, produced)

\* GreetingAssistanceInitiationOperation._execute
GreetingInitiation_execute(w, op, ctx) ==
    LET user_id == ctx.statement.user
        produced == <<NewAssistance(user_id, <<AssistanceObject(user_id, "message")>>)>>
    IN IF ctx.statement.experiences <= 1
       THEN Executed([WithSubsequent(op, Scheduled(SCREENCAST_HINT, 5)) EXCEPT
                          !.target_status = IN_PROGRESS], produced)
       ELSE Executed(op, produced)

\* ToolcheckScreencastHintOperation._execute
ToolcheckScreencastHint_execute(w, op, ctx) ==
    LET a == read_assistance_by_a_id(w, ctx.a_id)
    IN Executed(op, <<[a EXCEPT !.new_objects = <<AssistanceObject(a.user_id, "message")>>]>>)

\* _execute of the registered operation classes
_execute(w, op, ctx, step) ==
    LET e == LoadError(w, ctx, op.cls # "ToolcheckScreencastHint")
    IN CASE op.cls = "PeerInitiation" -> PeerInitiation_execute(w, op, ctx)
         [] op.cls = "GreetingInitiation" -> GreetingInitiation_execute(w, op, ctx)
         [] op.cls \notin {"PeerInitiation", "GreetingInitiation"} /\ e # None ->
                ExecuteRaised(op, e)
         [] op.cls = "ForwardMessageToPeer" -> ForwardMessageToPeer_execute(w, op, ctx)
         [] op.cls = "HandleWaitForObject" -> HandleWaitForObject_execute(w, op, ctx)
         [] op.cls = "RequestSolution" -> RequestSolution_execute(w, op, ctx, step)
         [] op.cls = "SendGroupFormationResultToPeers" ->
                SendGroupFormationResultToPeers_execute(w, op, ctx)
         [] op.cls = "SendGroupInformation" -> SendGroupInformation_execute(w, op, ctx)
         [] op.cls = "SendObjectsToUsers" -> SendObjectsToUsers_execute(w, op, ctx, step)
         [] op.cls = "SendSolutionToPeers" -> SendSolutionToPeers_execute(w, op, ctx)
         [] OTHER -> ToolcheckScreencastHint_execute(w, op, ctx)

----------------------------------------------------------------------------
(* The execution engine (AssistanceOperation.execute).                      *)

\* debug(): DEBUG environment variable or the stored debug setting
debug == settings.debug

\* schedule_operation: the delay is multiplied by the stored time factor only
\* in debug mode.  The context handed over by the engine holds nothing but
\* the a_id and can always be persisted.
TimeFactor == IF debug /\ settings.time_factor # 0 THEN settings.time_factor ELSE 1

\* variant: the delay is never multiplied by the time factor
schedule_operation_Unscaled(w, type, key, time_to_invocation_in_s, a_id) ==
    IF ~is_operation_registered(type, key) THEN Raise(w, "AssistanceOperationException")
    ELSE create_assistance_operation_for_scheduled_invocation(
             w, type, key, a_id, time_to_invocation_in_s)

schedule_operation(w, type, key, time_to_invocation_in_s, a_id) ==
    IF ~is_operation_registered(type, key) THEN Raise(w, "AssistanceOperationException")
    ELSE create_assistance_operation_for_scheduled_invocation(
             w, type, key, a_id, time_to_invocation_in_s * TimeFactor)

RECURSIVE ScheduleAll(_, _, _, _)
ScheduleAll(w, type, subsequent_scheduled_operations, a_id) ==
    IF subsequent_scheduled_operations = <<>> \/ Failed(w) THEN w
    ELSE ScheduleAll(schedule_operation(w, type,
                                        Head(subsequent_scheduled_operations).operation_key,
                                        Head(subsequent_scheduled_operations).time_to_invocation_in_s,
                                        a_id),
                     type, Tail(subsequent_scheduled_operations), a_id)

\* first operand of the state update: the target value when it differs from a
\* present current value, else the present current value, else the default
StateUpdateValue(target, current, absent, default) ==
    IF current # absent /\ target # current THEN target
    ELSE IF current # absent THEN current
    ELSE default

\* variant: the override and the related users are used whatever
\* send_state_update_to_related_users says
_compute_state_update_assistance_objects_Unflagged(op, a, status_update, phase_update, step_update) ==
    LET ids_of_users_to_update ==
            IF op.related_set THEN op.related_user_ids
            ELSE IF a.related_user_ids # <<>> THEN a.related_user_ids
            ELSE <<a.user_id>>
    IN IF op.status_to_send_set /\ status_update \notin op.state_update_status_to_send THEN <<>>
       ELSE [i \in 1..Len(ids_of_users_to_update) |->
                [AssistanceObject(ids_of_users_to_update[i], "state_update") EXCEPT
                    !.state = AssistanceState(status_update, phase_update, step_update)]]

\* _compute_state_update_assistance_objects
_compute_state_update_assistance_objects(op, a, status_update, phase_update, step_update) ==
    LET ids_of_users_to_update ==
            IF op.send_state_update_to_related_users /\ op.related_set THEN op.related_user_ids
            ELSE IF op.send_state_update_to_related_users /\ a.related_user_ids # <<>>
                 THEN a.related_user_ids
            ELSE <<a.user_id>>
    IN IF op.status_to_send_set /\ status_update \notin op.state_update_status_to_send THEN <<>>
       ELSE [i \in 1..Len(ids_of_users_to_update) |->
                [AssistanceObject(ids_of_users_to_update[i], "state_update") EXCEPT
                    !.state = AssistanceState(status_update, phase_update, step_update)]]

\* "Determine state update" of _process_assistance_result: the assistance
\* with the state update objects prepended and the user states recorded
DetermineStateUpdate(op, a, phase, step) ==
    LET current == a.assistance_state
        status_update == StateUpdateValue(op.target_status, current.status, None, INITIATED)
    IN IF op.target_status # None /\ phase # 0 /\ step # None
       THEN LET phase_update == StateUpdateValue(phase, current.phase, 0, 1)
                step_update == StateUpdateValue(step, current.step, None,
                                                ASSISTANCE_OPERATION_KEY_INITIATION)
                updates == _compute_state_update_assistance_objects(
                               op, a, status_update, phase_update, step_update)
                updated_users == {updates[i].user_id : i \in DOMAIN updates}
            IN [a EXCEPT !.new_objects = updates \o @,
                         !.user_states = [u \in Users |->
                             IF u \in updated_users
                             THEN AssistanceState(status_update, phase_update, step_update)
                             ELSE @[u]]]
       ELSE IF op.target_status # None
       THEN LET op1 == IF op.status_to_send_set THEN op
                       ELSE [op EXCEPT !.status_to_send_set = TRUE,
                                       !.state_update_status_to_send = {ABORTED, COMPLETED}]
            IN [a EXCEPT !.new_objects =
                    _compute_state_update_assistance_objects(op1, a, status_update, 0, None) \o @]
       ELSE a

OperationKeys(subs) == [i \in 1..Len(subs) |-> subs[i].operation_key]

\* variant: the properties are set whether or not prevent_progress is set
SetAssistanceProperties_Always(op, a, phase, step, subsequent_triggered_operations) ==
    [a EXCEPT !.assistance_state = AssistanceState(op.target_status, phase, step),
              !.next_operation_keys = OperationKeys(subsequent_triggered_operations)]

\* "Set assistance properties" of _process_assistance_result
SetAssistanceProperties(op, a, phase, step, subsequent_triggered_operations) ==
    IF ~op.prevent_progress
    THEN [a EXCEPT !.assistance_state = AssistanceState(op.target_status, phase, step),
                   !.next_operation_keys = OperationKeys(subsequent_triggered_operations)]
    ELSE a

Persisted(w, a_id, assistance_objects) ==
    [w |-> w, persisted |-> <<[a_id |-> a_id, assistance_objects |-> assistance_objects]>>]

NotPersisted(w) == [w |-> w, persisted |-> <<>>]

\* variant: the follow-ups are scheduled before the instance is updated
PersistAndSchedule_SchedulingFirst(w, type, a, subsequent_scheduled_operations) ==
    IF a.a_id = 0
    THEN Let(create_assistance(w, [a EXCEPT !.type_key = type]), LAMBDA w1 :
             Persisted(ScheduleAll(w1, type, subsequent_scheduled_operations,
                                   Len(w1.assistance)),
                       Len(w1.assistance), NewObjectIds(w, a.new_objects)))
    ELSE IF ~Exists(w, a.a_id) THEN NotPersisted(Raise(w, "AttributeError"))
    ELSE Let(update_assistance_adding_assistance_objects(
                 ScheduleAll(w, type, subsequent_scheduled_operations, a.a_id), a),
             LAMBDA w1 :
                 IF Failed(w1) THEN NotPersisted(w1)
                 ELSE Persisted(w1, a.a_id, NewObjectIds(w, a.new_objects)))

\* "Create new assistance / or update existing assistance" followed by
\* "Schedule operations" of _process_assistance_result
PersistAndSchedule(w, type, a, subsequent_scheduled_operations) ==
    IF a.a_id = 0
    THEN Let(create_assistance(w, [a EXCEPT !.type_key = type]), LAMBDA w1 :
             Persisted(ScheduleAll(w1, type, subsequent_scheduled_operations,
                                   Len(w1.assistance)),
                       Len(w1.assistance), NewObjectIds(w, a.new_objects)))
    ELSE IF ~Exists(w, a.a_id) THEN NotPersisted(Raise(w, "AttributeError"))
    ELSE Let(update_assistance_adding_assistance_objects(w, a), LAMBDA w1 :
             IF Failed(w1) THEN NotPersisted(w1)
             ELSE Persisted(ScheduleAll(w1, type, subsequent_scheduled_operations, a.a_id),
                            a.a_id, NewObjectIds(w, a.new_objects)))

\* variant: without an assistance to process nothing is persisted
_process_assistance_result_Skipping(w, type, op, phase, step, ctx, produced, scheduled, triggered) ==
    IF produced = <<>> THEN NotPersisted(w)
    ELSE LET a1 == DetermineStateUpdate(op, produced[1], phase, step)
             a2 == SetAssistanceProperties(op, a1, phase, step, triggered)
             a3 == [a2 EXCEPT !.new_objects = [i \in DOMAIN @ |->
                       IF @[i].type # None THEN @[i]
                       ELSE [@[i] EXCEPT !.type = ASSISTANCE_OBJECT]]]
         IN PersistAndSchedule(w, type, a3, scheduled)

\* AssistanceOperation._process_assistance_result; produced is the sequence
\* holding the assistance to process, empty when there is none
_process_assistance_result(w, type, op, phase, step, ctx, produced, scheduled, triggered) ==
    IF produced = <<>> /\ ~op.assistance_in_progress_required THEN NotPersisted(w)
    ELSE IF produced = <<>> /\ ctx.a_id = 0
         THEN NotPersisted(Raise(w, "AssistanceParameterException"))
    ELSE IF produced = <<>> /\ ~Exists(w, ctx.a_id) THEN NotPersisted(Raise(w, "AttributeError"))
    ELSE LET a0 == IF produced = <<>> THEN read_assistance_by_a_id(w, ctx.a_id)
                   ELSE produced[1]
             a1 == DetermineStateUpdate(op, a0, phase, step)
             a2 == SetAssistanceProperties(op, a1, phase, step, triggered)
             a3 == [a2 EXCEPT !.new_objects = [i \in DOMAIN @ |->
                       IF @[i].type # None THEN @[i]
                       ELSE [@[i] EXCEPT !.type = ASSISTANCE_OBJECT]]]
         IN PersistAndSchedule(w, type, a3, scheduled)

RECURSIVE ProcessAll(_, _, _, _, _, _, _, _, _, _)
ProcessAll(w, type, op, phase, step, ctx, produced, scheduled, triggered, done) ==
    IF produced = <<>> \/ Failed(w) THEN [w |-> w, persisted |-> done]
    ELSE Let(_process_assistance_result(w, type, op, phase, step, ctx,
                                        <<Head(produced)>>, scheduled, triggered),
             LAMBDA r : ProcessAll(r.w, type, op, phase, step, ctx, Tail(produced),
                                   scheduled, triggered, done \o r.persisted))

\* the world w1 reached from w0 by one execution of an operation, with the
\* record the history keeps of that execution
Logged(w0, w1, type, key, ctx, op, subsequent, persisted, applicable) ==
    [w1 EXCEPT !.log = Append(@,
    [assistance_type_key |-> type, operation_key |-> key, a_id |-> ctx.a_id, time |-> now,
     applicable |-> applicable, err |-> w1.err, statement |-> ctx.statement,
     absent |-> FALSE,
     prevent_progress |-> op.prevent_progress,
     target_status |-> op.target_status,
     delete_scheduled_operations |-> op.delete_scheduled_operations,
     subsequent_operations |-> subsequent,
     persisted |-> [i \in DOMAIN persisted |-> persisted[i].a_id],
     before |-> [assistance |-> w0.assistance, operations |-> w0.operations,
                 objects |-> Len(w0.objects)],
     after |-> [assistance |-> w1.assistance, operations |-> w1.operations,
                objects |-> Len(w1.objects)]])]

\* the record of the execution logged last tells whether _execute returned None
WithAbsent(w, none) == [w EXCEPT !.log[Len(w.log)].absent = none]

Result(w, none, produced) == [w |-> w, none |-> none, assistance |-> produced]

ResetRequired(op) ==
    op.assistance_in_progress_required /\ op.reset_next_operation_keys /\ ~op.prevent_progress

\* variant: the bulk delete ignores prevent_progress
DeleteRequired_Unconditional(op) ==
    op.assistance_in_progress_required /\ op.delete_scheduled_operations

\* variant: no bulk delete at all
DeleteRequired_Never(op) == FALSE

\* the condition of the bulk delete of the instance's scheduled operations
DeleteRequired(op) ==
    op.assistance_in_progress_required /\ op.delete_scheduled_operations /\ ~op.prevent_progress

\* variant: the queues are not partitioned by type
SubsequentQueue_Unfiltered(op, type) ==
    IF op.prevent_progress THEN <<>> ELSE op.subsequent_operations

\* the TRIGGERED / SCHEDULED queue of an execution, discarded under prevent_progress
SubsequentQueue(op, type) ==
    IF op.prevent_progress THEN <<>> ELSE SeqFilterKeys(op.subsequent_operations, type)

\* AssistanceOperation.execute after _execute returned r: the reset of the
\* next operation keys, the bulk delete and the processing of the result
Process(w, type, op, phase, step, ctx, r) ==
    LET subsequent_triggered_operations == SubsequentQueue(op, TRIGGERED_OPERATION)
        subsequent_scheduled_operations == SubsequentQueue(op, SCHEDULED_OPERATION)
        w1 == IF ResetRequired(op)
              THEN update_assistance_by_a_id_reset_next_operation_keys(w, ctx.a_id) ELSE w
        w2 == IF DeleteRequired(op)
              THEN delete_assistance_operations_by_a_id(w1, ctx.a_id) ELSE w1
    IN IF ~r.none /\ r.assistance # <<>>
       THEN ProcessAll(w2, type, op, phase, step, ctx, r.assistance,
                       subsequent_scheduled_operations, subsequent_triggered_operations, <<>>)
       ELSE _process_assistance_result(w2, type, op, phase, step, ctx, <<>>,
                       subsequent_scheduled_operations, subsequent_triggered_operations)

\* AssistanceOperation.execute
execute(w, type, key, ctx, phase, step) ==
    Let(RegisteredOperation(type, key), LAMBDA op0 :
    Let(_execute(w, [op0 EXCEPT !.reset_next_operation_keys = @ \/ op0.subsequent_declared],
                 ctx, step), LAMBDA r :
        IF r.err # None
        THEN Result(Logged(w, Raise(w, r.err), type, key, ctx, r.op,
                           r.op.subsequent_operations, <<>>, TRUE), TRUE, <<>>)
        ELSE Let(Process(w, type, r.op, phase, step, ctx, r), LAMBDA p :
                 Result(WithAbsent(Logged(w, p.w, type, key, ctx, r.op,
                                          r.op.subsequent_operations, p.persisted, TRUE),
                                   r.none),
                        r.none \/ Failed(p.w),
                        IF ~r.none /\ r.assistance # <<>> THEN p.persisted ELSE <<>>))))

\* variant: an operation found not applicable is reported as an error
check_applicability_and_execute_operation_Raising(w, type, key, ctx) ==
    IF ~is_operation_registered(type, key)
    THEN Result(Raise(w, "AssistanceOperationException"), TRUE, <<>>)
    ELSE Let(RegisteredOperation(type, key), LAMBDA op :
             IF StoreError(w, type, op, ctx) # None
             THEN Result(Raise(w, StoreError(w, type, op, ctx)), TRUE, <<>>)
             ELSE IF is_applicable_error(op, ctx) # None
             THEN Result(Raise(w, is_applicable_error(op, ctx)), TRUE, <<>>)
             ELSE IF ~is_applicable(w, op, ctx)
             THEN Result(Logged(w, Raise(w, "AssistanceOperationException"), type, key, ctx, op,
                                op.subsequent_operations, <<>>, FALSE), TRUE, <<>>)
             ELSE execute(w, type, key, ctx, PhaseNumber(type, key), key))

\* AssistanceProcess.check_applicability_and_execute_operation
check_applicability_and_execute_operation(w, type, key, ctx) ==
    IF ~is_operation_registered(type, key)
    THEN Result(Raise(w, "AssistanceOperationException"), TRUE, <<>>)
    ELSE Let(RegisteredOperation(type, key), LAMBDA op :
             IF StoreError(w, type, op, ctx) # None
             THEN Result(Raise(w, StoreError(w, type, op, ctx)), TRUE, <<>>)
             ELSE IF is_applicable_error(op, ctx) # None
             THEN Result(Raise(w, is_applicable_error(op, ctx)), TRUE, <<>>)
             ELSE IF ~is_applicable(w, op, ctx)
             THEN Result(Logged(w, w, type, key, ctx, op, op.subsequent_operations, <<>>,
                                FALSE), TRUE, <<>>)
             ELSE execute(w, type, key, ctx, PhaseNumber(type, key), key))

\* variant: the chained instances are always put last
handle_chained_requests_Appending(result, prepend, results) ==
    IF result.none \/ results = <<>>
    THEN [err |-> None, none |-> result.none, assistance |-> result.assistance]
    ELSE IF \E i \in DOMAIN results : results[i].none
    THEN [err |-> "AttributeError", none |-> TRUE, assistance |-> <<>>]
    ELSE [err |-> None, none |-> FALSE,
          assistance |-> result.assistance
                             \o Concat([i \in DOMAIN results |-> results[i].assistance])]

\* the end of __handle_assistance_request, after the originating operation
\* returned result with prepend_assistance_from_requests prepend: results
\* holds what the recursive calls for its assistance_requests returned, in
\* order.  The attribute assistance of a call that returned None cannot be
\* read.
handle_chained_requests(result, prepend, results) ==
    IF result.none \/ results = <<>>
    THEN [err |-> None, none |-> result.none, assistance |-> result.assistance]
    ELSE IF \E i \in DOMAIN results : results[i].none
    THEN [err |-> "AttributeError", none |-> TRUE, assistance |-> <<>>]
    ELSE [err |-> None, none |-> FALSE,
          assistance |-> IF prepend
                         THEN Concat([i \in DOMAIN results |-> results[i].assistance])
                                  \o result.assistance
                         ELSE result.assistance
                                  \o Concat([i \in DOMAIN results |-> results[i].assistance])]

\* __handle_assistance_request for the supported, enabled types; none of the
\* modelled operations returns chained requests
handle_assistance_request(w, type, key, ctx) ==
    IF type \notin Range(ASSISTANCE_TYPES) THEN Result(w, TRUE, <<>>)
    ELSE check_applicability_and_execute_operation(w, type, key, ctx)

----------------------------------------------------------------------------
(* The dispatcher (service/assistance.py).                                  *)

\* assistance_by_request
assistance_by_request(w, type, key, ctx) == handle_assistance_request(w, type, key, ctx)

\* one iteration body shared by the loops of assistance_by_statement and
\* update_assistance: only AssistanceOperationException is swallowed
Swallow(r, w) ==
    IF r.w.err = "AssistanceOperationException" THEN [r EXCEPT !.w = [r.w EXCEPT !.err = None]]
    ELSE r

\* the loops over operation requests; calls is a sequence of
\* <<type key, operation key, context>>
RECURSIVE HandleAll(_, _, _)
HandleAll(w, calls, produced) ==
    IF calls = <<>> \/ Failed(w) THEN Result(w, produced = <<>>, produced)
    ELSE Let(Swallow(handle_assistance_request(w, Head(calls)[1], Head(calls)[2],
                                               Head(calls)[3]), w),
             LAMBDA r : HandleAll(r.w, Tail(calls), produced \o r.assistance))

StatementContext(statement, a_id) == [AssistanceContext(a_id) EXCEPT !.statement = statement]

\* read_assistance_by_status([INITIATED, IN_PROGRESS]) flattened to the calls
\* for the next operation keys of every instance found
ContinuationCalls(w, statement) ==
    Concat([a_id \in 1..Len(w.assistance) |->
        IF w.assistance[a_id].assistance_state.status \in {INITIATED, IN_PROGRESS}
        THEN [i \in 1..Len(w.assistance[a_id].next_operation_keys) |->
                 <<w.assistance[a_id].type_key, w.assistance[a_id].next_operation_keys[i],
                   StatementContext(statement, a_id)>>]
        ELSE <<>>])

\* assistance_by_statement for a statement whose verb is not "assisted"
assistance_by_statement(w, statement) ==
    Let(HandleAll(w, [i \in 1..Len(ASSISTANCE_TYPES) |->
                         <<ASSISTANCE_TYPES[i], ASSISTANCE_OPERATION_KEY_INITIATION,
                           StatementContext(statement, 0)>>], <<>>),
        LAMBDA initiated :
            IF Failed(initiated.w) THEN initiated
            ELSE HandleAll(initiated.w, ContinuationCalls(initiated.w, statement),
                           initiated.assistance))

AsResponse(response_objects) ==
    [i \in DOMAIN response_objects |->
        [response_objects[i] EXCEPT !.type = ASSISTANCE_RESPONSE_OBJECT]]

\* update_assistance
update_assistance(w, a_id, assistance_response_objects) ==
    Let(update_assistance_by_a_id_adding_assistance_objects(
            w, a_id, AsResponse(assistance_response_objects)),
        LAMBDA w1 :
            IF Failed(w1) THEN Result(w1, TRUE, <<>>)
            ELSE HandleAll(w1, [i \in 1..Len(w1.assistance[a_id].next_operation_keys) |->
                     <<w1.assistance[a_id].type_key, w1.assistance[a_id].next_operation_keys[i],
                       ResponseContext(a_id, AsResponse(assistance_response_objects))>>], <<>>))

ScheduledAssistanceDisabled == debug /\ settings.scheduled_assistance_disabled

\* variant: the entry is deleted whether or not its handling raised
SweepEntry_Dropping(w, entry, unavailable) ==
    IF unavailable
    THEN [w |-> delete_assistance_operation(w, entry.id), err |-> "ConnectionFailure",
          executed |-> FALSE]
    ELSE Let(handle_assistance_request(w, entry.assistance_type_key,
                                       entry.assistance_operation_key,
                                       AssistanceContext(entry.a_id)),
             LAMBDA r :
                 [w |-> delete_assistance_operation([r.w EXCEPT !.err = None], entry.id),
                  err |-> r.w.err,
                  executed |-> Len(r.w.log) > Len(w.log) /\ r.w.log[Len(r.w.log)].applicable])

\* body of the loop of check_scheduled_assistance_operations for one entry.
\* Any exception is caught and logged and the entry is kept; unavailable tells
\* that the store cannot be reached while the entry is handled, which raises
\* at the first read, before anything is written.  executed tells whether the
\* operation of the entry was found applicable and run.
SweepEntry(w, entry, unavailable) ==
    IF unavailable THEN [w |-> w, err |-> "ConnectionFailure", executed |-> FALSE]
    ELSE Let(handle_assistance_request(w, entry.assistance_type_key,
                                       entry.assistance_operation_key,
                                       AssistanceContext(entry.a_id)),
             LAMBDA r :
                 [w |-> IF Failed(r.w) THEN [r.w EXCEPT !.err = None]
                        ELSE delete_assistance_operation(r.w, entry.id),
                  err |-> r.w.err,
                  executed |-> Len(r.w.log) > Len(w.log) /\ r.w.log[Len(r.w.log)].applicable])

\* variant: the loop ends at the first entry whose handling raises
RECURSIVE SweepAll_Stopping(_, _, _, _)
SweepAll_Stopping(w, due, swept, faulty) ==
    IF due = <<>> THEN [w |-> w, swept |-> swept]
    ELSE Let(SweepEntry(w, Head(due), Head(due).id \in faulty),
             LAMBDA r : IF r.err # None
                        THEN [w |-> r.w,
                              swept |-> Append(swept, [entry |-> Head(due), err |-> r.err,
                                                       executed |-> r.executed])]
                        ELSE SweepAll_Stopping(r.w, Tail(due),
                                               Append(swept, [entry |-> Head(due),
                                                              err |-> r.err,
                                                              executed |-> r.executed]),
                                               faulty))

\* the loop over the entries read when the sweep started
RECURSIVE SweepAll(_, _, _, _)
SweepAll(w, due, swept, faulty) ==
    IF due = <<>> THEN [w |-> w, swept |-> swept]
    ELSE Let(SweepEntry(w, Head(due), Head(due).id \in faulty),
             LAMBDA r : SweepAll(r.w, Tail(due),
                                 Append(swept, [entry |-> Head(due), err |-> r.err,
                                                executed |-> r.executed]),
                                 faulty))

\* check_scheduled_assistance_operations; faulty holds the ids of the entries
\* during whose handling the store cannot be reached
check_scheduled_assistance_operations(w, faulty) ==
    IF ScheduledAssistanceDisabled THEN [w |-> w, swept |-> <<>>]
    ELSE SweepAll(w, read_assistance_operation_by_time_of_invocation_before_date(
                         w.operations, now), <<>>, faulty)

----------------------------------------------------------------------------
(* The state machine.  Every handler is an "async def" whose body never     *)
(* awaits, so within one worker an invocation runs from its first read to   *)
(* its last write without interleaving: one action per invocation.          *)

\* AssistanceProcess.__init__: nothing registered; call keeps the steps handed
\* to the registration made last and err the exception it raised
NoRegistry == [operations |-> <<>>, call |-> <<>>, err |-> None]

Current == World(assistance, objects, operations, op_counter)

\* what the history keeps of one invocation of an entry point
Invocation(kind, a_id, w, returned, due, swept) ==
    [kind |-> kind, a_id |-> a_id, err |-> w.err, log |-> w.log, returned |-> returned,
     due |-> due, swept |-> swept]

\* the executions in the log that ran a request-solution operation on a_id
\* to its end
SolutionRequests(log, a_id) ==
    {i \in DOMAIN log :
        /\ log[i].a_id = a_id /\ log[i].applicable /\ log[i].err = None
        /\ RegisteredOperation(log[i].assistance_type_key, log[i].operation_key).cls
               = "RequestSolution"}

Commit(w) ==
    /\ assistance' = w.assistance
    /\ objects' = w.objects
    /\ operations' = w.operations
    /\ op_counter' = w.op_counter
    /\ requested' = [a_id \in DOMAIN w.assistance |->
                         (IF a_id \in DOMAIN requested THEN requested[a_id] ELSE 0)
                         + Cardinality(SolutionRequests(w.log, a_id))]
    /\ registry' = registry

\* the stored debug settings: none, a time factor, scheduled assistance disabled
Settings == {[debug |-> FALSE, time_factor |-> 0, scheduled_assistance_disabled |-> FALSE],
             [debug |-> TRUE, time_factor |-> 2, scheduled_assistance_disabled |-> FALSE],
             [debug |-> TRUE, time_factor |-> 0, scheduled_assistance_disabled |-> TRUE]}

\* empty collections after start-up, with n external invocations to come
Start(n, configured) ==
    /\ assistance = <<>>
    /\ objects = <<>>
    /\ operations = <<>>
    /\ op_counter = 0
    /\ now = 0
    /\ last = Invocation("start", 0, Current, <<>>, <<>>, <<>>)
    /\ pending = <<>>
    /\ requested = <<>>
    /\ registry = NoRegistry
    /\ settings \in configured
    /\ budget = n

Init == Start(MaxInvocations, Settings)

\* requests: initiations, and operations requested directly for no instance
\* id, a stored one or an unknown one
Requests ==
    {<<PEER, ASSISTANCE_OPERATION_KEY_INITIATION,
       [AssistanceContext(0) EXCEPT !.initiator = u, !.collaborators = <<"u1", "u2">>]>> :
         u \in Users}
    \cup {<<k[1], k[2], AssistanceContext(a_id)>> :
             k \in {<<PEER, "individual_solution_development_step_3">>,
                    <<PEER, "solution_proposal_step_2">>,
                    <<GREETING, SCREENCAST_HINT>>},
             a_id \in 0..(Len(assistance) + 1)}

\* request-driven entry point (assistance_by_request)
HandleRequest(requests) ==
    /\ budget > 0
    /\ \E rq \in requests :
          \E r \in {assistance_by_request(Current, rq[1], rq[2], rq[3])} :
              /\ Commit(r.w)
              /\ last' = Invocation("request", rq[3].a_id, r.w, r.assistance, <<>>, <<>>)
    /\ budget' = budget - 1
    /\ UNCHANGED <<now, settings, pending>>

\* the statements received: a first login, a later login and another verb
Statements ==
    {[user |-> "u1", verb |-> "logged_in", experiences |-> 1],
     [user |-> "u1", verb |-> "logged_in", experiences |-> 2],
     [user |-> "u2", verb |-> "experienced", experiences |-> 2]}

\* event-driven entry point (assistance_by_statement)
HandleEvent ==
    /\ budget > 0
    /\ \E statement \in Statements :
          \E r \in {assistance_by_statement(Current, statement)} :
              Commit(r.w) /\ last' = Invocation("event", 0, r.w, r.assistance, <<>>, <<>>)
    /\ budget' = budget - 1
    /\ UNCHANGED <<now, settings, pending>>

ResponseObject(user_id, key, value) ==
    [AssistanceObject(user_id, key) EXCEPT !.type = ASSISTANCE_RESPONSE_OBJECT] @@
    [value |-> value]

\* response entry point (update_assistance) for a stored or an unknown id
AppendResponse(response_objects) ==
    /\ budget > 0
    /\ \E a_id \in 1..(Len(assistance) + 1), o \in response_objects :
          \E r \in {update_assistance(Current, a_id, <<o>>)} :
              Commit(r.w) /\ last' = Invocation("response", a_id, r.w, r.assistance, <<>>, <<>>)
    /\ budget' = budget - 1
    /\ UNCHANGED <<now, settings, pending>>

DueNow == read_assistance_operation_by_time_of_invocation_before_date(operations, now)

\* tick of the due sweep (scheduled_check_for_assistance_operations_to_execute);
\* faults holds the fault inputs to choose from, each the set of the ids of
\* the entries during whose handling the store cannot be reached
DueSweep(faults) ==
    /\ DueNow # <<>>
    /\ \E faulty \in faults :
          \E r \in {check_scheduled_assistance_operations(Current, faulty)} :
              Commit(r.w) /\ last' = Invocation("sweep", 0, r.w, <<>>, DueNow, r.swept)
    /\ UNCHANGED <<now, settings, budget, pending>>

\* the age at which the cleanup tick removes a scheduled operation: one hour
RetentionWindow == 3600

\* variant: every deletion of the cleanup raises, which is logged
scheduled_cleanup_for_expired_assistance_operations_Logging(w, expired) == w

\* the loop of scheduled_cleanup_for_expired_assistance_operations over the
\* entries it read
RECURSIVE scheduled_cleanup_for_expired_assistance_operations(_, _)
scheduled_cleanup_for_expired_assistance_operations(w, expired) ==
    IF expired = <<>> THEN w
    ELSE scheduled_cleanup_for_expired_assistance_operations(
             delete_assistance_operation(w, Head(expired).id), Tail(expired))

\* tick of the cleanup: the entries due since the retention window or longer
\* are read and deleted one by one
RetentionSweep ==
    /\ now >= RetentionWindow
    /\ \E expired \in {read_assistance_operation_by_time_of_invocation_before_date(
                            operations, now - RetentionWindow)} :
          /\ expired # <<>>
          /\ \E w \in {scheduled_cleanup_for_expired_assistance_operations(Current, expired)} :
                Commit(w) /\ last' = Invocation("cleanup", 0, w, <<>>, expired, <<>>)
    /\ UNCHANGED <<now, settings, budget, pending>>

FutureTimes(limit) ==
    {operations[i].time_of_invocation : i \in DOMAIN operations} \cap ((now + 1)..limit)

\* passage of time up to the next due time
Advance(limit) ==
    /\ FutureTimes(limit) # {}
    /\ now' = CHOOSE t \in FutureTimes(limit) : \A u \in FutureTimes(limit) : t <= u
    /\ last' = Invocation("advance", 0, Current, <<>>, <<>>, <<>>)
    /\ UNCHANGED <<assistance, objects, operations, op_counter, settings, budget, pending,
                   requested, registry>>

\* passage of time up to the next time at which a stored entry has been due
\* for the retention window
Expire(limit) ==
    /\ \E t \in {operations[i].time_of_invocation + RetentionWindow : i \in DOMAIN operations}
                  \cap ((now + 1)..limit) :
          /\ \A i \in DOMAIN operations :
                operations[i].time_of_invocation + RetentionWindow > now
                    => t <= operations[i].time_of_invocation + RetentionWindow
          /\ now' = t
    /\ last' = Invocation("advance", 0, Current, <<>>, <<>>, <<>>)
    /\ UNCHANGED <<assistance, objects, operations, op_counter, settings, budget, pending,
                   requested, registry>>

\* passage of time while the sweep, which ticks every two seconds, has left
\* nothing due
Tick(limit) == DueNow = <<>> /\ Advance(limit)

Next ==
    \/ HandleRequest(Requests)
    \/ HandleEvent
    \/ AppendResponse({ResponseObject(u, kv[1], kv[2]) : u \in Users,
                          kv \in {<<"solution_response", "text">>,
                                  <<"message_response", "text">>,
                                  <<"state_update_response", "standby">>}})
    \/ DueSweep({{}})
    \/ Advance(MaxTime)

Spec == Init /\ [][Next]_vars

\* One group working without any time passing: the initiation, operations
\* requested directly for the first instance, and solutions handed in by the
\* two collaborators.
GroupRequests ==
    {<<PEER, ASSISTANCE_OPERATION_KEY_INITIATION,
       [AssistanceContext(0) EXCEPT !.initiator = "u1", !.collaborators = <<"u1", "u2">>]>>}
    \cup {<<PEER, key, AssistanceContext(1)>> :
             key \in {"individual_solution_development_step_3", "solution_proposal_step_2"}}

GroupResponses == {ResponseObject(u, "solution_response", "text") : u \in Users}

NextGroup ==
    \/ HandleRequest(GroupRequests)
    \/ AppendResponse(GroupResponses)

SpecGroup == Start(MaxGroupInvocations, Settings) /\ [][NextGroup]_vars

\* The due sweep with a store that may be unreachable while an entry is
\* handled: initiations by request and by event, the entries they schedule,
\* and the sweeps over them as time passes.
NextSweep ==
    \/ HandleRequest(GroupRequests \cup {<<GREETING, SCREENCAST_HINT, AssistanceContext(1)>>})
    \/ HandleEvent
    \/ DueSweep({{}} \cup {{DueNow[i].id} : i \in DOMAIN DueNow})
    \/ RetentionSweep
    \/ Advance(MaxTime)
    \/ Expire(MaxTimeSweep)

SpecSweep == Start(MaxSweepInvocations, Settings) /\ [][NextSweep]_vars

\* The retries of the request for a solution: a group is initiated, the
\* solution proposal is requested for it, directly or through the step before
\* it, and nobody answers while the sweeps re-execute the request.
RetryRequests ==
    {<<PEER, ASSISTANCE_OPERATION_KEY_INITIATION,
       [AssistanceContext(0) EXCEPT !.initiator = u, !.collaborators = <<"u1", "u2">>]>> :
         u \in Users}
    \cup {<<PEER, key, AssistanceContext(1)>> :
             key \in {"individual_solution_development_step_5", "solution_proposal_step_2",
                      "solution_proposal_step_3"}}

NextRetry ==
    \/ HandleRequest(RetryRequests)
    \/ DueSweep({{}})
    \/ Tick(MaxTimeRetry)

SpecRetry == Start(MaxRetryInvocations, Settings) /\ [][NextRetry]_vars

\* Two service processes on one store.  Within a process an invocation runs
\* to its end, but the store serialises only single reads and writes, so the
\* invocation of a second process is taken in two steps: update_assistance up
\* to the return of _execute of the one continuation of the instance, which
\* has read the instance, and the rest of AssistanceOperation.execute, which
\* writes it.  The invocations of the first process fall before, between or
\* after the two.
RaceBegin(response_objects) ==
    /\ budget > 0
    /\ pending = <<>>
    /\ \E a_id \in DOMAIN assistance, o \in response_objects :
          \E w1 \in {update_assistance_by_a_id_adding_assistance_objects(
                          Current, a_id, AsResponse(<<o>>))} :
              /\ ~Failed(w1)
              /\ Len(w1.assistance[a_id].next_operation_keys) = 1
              /\ \E c \in {[type |-> w1.assistance[a_id].type_key,
                              key |-> w1.assistance[a_id].next_operation_keys[1],
                              ctx |-> ResponseContext(a_id, AsResponse(<<o>>))]} :
                    /\ is_operation_registered(c.type, c.key)
                    /\ \E op \in {RegisteredOperation(c.type, c.key)} :
                          /\ is_applicable_error(op, c.ctx) = None
                          /\ is_applicable(w1, op, c.ctx)
                          /\ \E r \in {_execute(w1, [op EXCEPT !.reset_next_operation_keys =
                                                              @ \/ op.subsequent_declared],
                                                  c.ctx, c.key)} :
                                /\ r.err = None
                                /\ pending' = <<[type |-> c.type, key |-> c.key,
                                                 ctx |-> c.ctx, r |-> r]>>
                    /\ Commit(w1)
                    /\ last' = Invocation("read", a_id, w1, <<>>, <<>>, <<>>)
    /\ budget' = budget - 1
    /\ UNCHANGED <<now, settings>>

RaceEnd ==
    /\ pending # <<>>
    /\ \E c \in {pending[1]} :
          \E p \in {Process(Current, c.type, c.r.op, PhaseNumber(c.type, c.key), c.key,
                             c.ctx, c.r)} :
              \E w \in {Logged(Current, p.w, c.type, c.key, c.ctx, c.r.op,
                                c.r.op.subsequent_operations, p.persisted, TRUE)} :
                  /\ Commit(w)
                  /\ last' = Invocation("write", c.ctx.a_id, w, p.persisted, <<>>, <<>>)
    /\ pending' = <<>>
    /\ UNCHANGED <<now, settings, budget>>

NextRace ==
    \/ HandleRequest(GroupRequests)
    \/ AppendResponse(GroupResponses)
    \/ RaceBegin(GroupResponses)
    \/ RaceEnd

SpecRace == Start(MaxRaceInvocations, Settings) /\ [][NextRace]_vars

\* The due sweep of a second service process, taken in two steps: the read
\* of the due entries (read_assistance_operation_by_time_of_invocation_before_date)
\* and the loop over the entries read.
SweepRead ==
    /\ pending = <<>>
    /\ DueNow # <<>>
    /\ ~ScheduledAssistanceDisabled
    /\ pending' = <<DueNow>>
    /\ last' = Invocation("read", 0, Current, <<>>, DueNow, <<>>)
    /\ UNCHANGED <<assistance, objects, operations, op_counter, now, settings, budget,
                   requested, registry>>

SweepLoop ==
    /\ pending # <<>>
    /\ \E r \in {SweepAll(Current, pending[1], <<>>, {})} :
          Commit(r.w) /\ last' = Invocation("sweep", 0, r.w, <<>>, pending[1], r.swept)
    /\ pending' = <<>>
    /\ UNCHANGED <<now, settings, budget>>

NextStale ==
    \/ HandleRequest(Requests)
    \/ HandleEvent
    \/ DueSweep({{}})
    \/ Advance(MaxTime)
    \/ SweepRead
    \/ SweepLoop

SpecStale == Start(MaxStaleInvocations, Settings) /\ [][NextStale]_vars

\* The resolution of chained requests.  None of the operations in the
\* catalogue above returns chained requests, so the results are drawn: that
\* of the originating operation, absent or with up to two instances, its
\* flag, and those of up to MaxChained chained requests, each absent or with
\* up to two instances.
ChainedResults(ids) ==
    {[none |-> TRUE, assistance |-> <<>>]}
    \cup {[none |-> FALSE,
           assistance |-> [i \in 1..n |-> [a_id |-> ids[i], assistance_objects |-> <<>>]]] :
             n \in 0..Len(ids)}

ResolveChained ==
    /\ budget > 0
    /\ \E result \in ChainedResults(<<1, 2>>), prepend \in BOOLEAN, n \in 0..MaxChained :
          \E results \in [1..n -> ChainedResults(<<3, 4>>)] :
              \E r \in {handle_chained_requests(result, prepend, results)} :
                  /\ pending' = <<[result |-> result, prepend |-> prepend,
                                   results |-> results]>>
                  /\ last' = Invocation("chained", 0, [Current EXCEPT !.err = r.err],
                                         r.assistance, <<>>, <<>>)
    /\ budget' = budget - 1
    /\ UNCHANGED <<assistance, objects, operations, op_counter, now, settings, requested,
                   registry>>

SpecChain == Start(MaxChainInvocations, Settings) /\ [][ResolveChained]_vars

\* A store that names an operation key which the process definition does not
\* register.  No operation of the catalogue declares such a follow-up, so the
\* store is the one a deployment leaves behind whose definition registered
\* the key: a group is initiated and introduction_step_2 is run for it, and
\* the key that was stored as the TRIGGERED follow-up and the key of the
\* entry that was scheduled last are the ones the running definition lacks.
RETIRED == "retired_operation"

LegacyStore ==
    Let(assistance_by_request(
            assistance_by_request(World(<<>>, <<>>, <<>>, 0), PEER,
                ASSISTANCE_OPERATION_KEY_INITIATION,
                [AssistanceContext(0) EXCEPT !.initiator = "u1",
                                             !.collaborators = <<"u1", "u2">>]).w,
            PEER, "introduction_step_2", AssistanceContext(1)).w,
        LAMBDA w : [w EXCEPT
            !.assistance[1].next_operation_keys = <<RETIRED>>,
            !.operations[Len(w.operations)].assistance_operation_key = RETIRED])

InitLegacy ==
    /\ now = 0
    /\ settings \in Settings
    /\ assistance = LegacyStore.assistance
    /\ objects = LegacyStore.objects
    /\ operations = LegacyStore.operations
    /\ op_counter = LegacyStore.op_counter
    /\ last = Invocation("start", 0, Current, <<>>, <<>>, <<>>)
    /\ pending = <<>>
    /\ requested = [a_id \in DOMAIN LegacyStore.assistance |-> 0]
    /\ registry = NoRegistry
    /\ budget = MaxLegacyInvocations

LegacyRequests ==
    {<<PEER, RETIRED, AssistanceContext(1)>>,
     <<GREETING, RETIRED, AssistanceContext(0)>>,
     <<PEER, "introduction_step_3", AssistanceContext(1)>>}

NextLegacy ==
    \/ HandleRequest(LegacyRequests)
    \/ HandleEvent
    \/ AppendResponse({ResponseObject(u, "message_response", "text") : u \in Users})
    \/ DueSweep({{}})
    \/ Advance(MaxTime)

SpecLegacy == InitLegacy /\ [][NextLegacy]_vars

\* Events received while the store cannot be reached during the evaluation
\* of the operations of one process type.  The type is kept in pending.
Outages == {{}} \cup {{ASSISTANCE_TYPES[i]} : i \in DOMAIN ASSISTANCE_TYPES}

HandleEventDuringOutage ==
    /\ budget > 0
    /\ \E statement \in Statements, unreachable \in Outages :
          \E r \in {assistance_by_statement([Current EXCEPT !.unreachable = unreachable],
                                            statement)} :
              /\ Commit(r.w)
              /\ last' = Invocation("event", 0, r.w, r.assistance, <<>>, <<>>)
              /\ pending' = <<unreachable>>
    /\ budget' = budget - 1
    /\ UNCHANGED <<now, settings>>

NextOutage ==
    \/ HandleRequest(GroupRequests \cup {<<PEER, "introduction_step_2", AssistanceContext(1)>>})
    \/ HandleEventDuringOutage

SpecOutage == Start(MaxOutageInvocations, Settings) /\ [][NextOutage]_vars

\* The construction of a process definition: calls of _register_operation and
\* of _register_phases in any order, with keys and operation objects drawn
\* from two each.  An exception ends the construction.
RegistrySteps ==
    {[operation_key |-> key, operation |-> operation] :
        key \in {"key_1", "key_2"}, operation \in {"operation_1", "operation_2"}}

RegisterOperation ==
    /\ budget > 0
    /\ registry.err = None
    /\ \E step \in RegistrySteps :
          \E r \in {_register_operation(registry.operations, step.operation_key,
                                        step.operation)} :
              registry' = [operations |-> r.operations, call |-> <<step>>, err |-> r.err]
    /\ budget' = budget - 1
    /\ UNCHANGED <<assistance, objects, operations, op_counter, now, settings, last, pending,
                   requested>>

RegisterPhases ==
    /\ budget > 0
    /\ registry.err = None
    /\ \E n \in 1..MaxSteps :
          \E steps \in [1..n -> RegistrySteps] :
              \E r \in {MergeRegistered(registry.operations, steps)} :
                  registry' = [operations |-> r.operations, call |-> steps, err |-> r.err]
    /\ budget' = budget - 1
    /\ UNCHANGED <<assistance, objects, operations, op_counter, now, settings, last, pending,
                   requested>>

NextRegistry == RegisterOperation \/ RegisterPhases

SpecRegistry == Start(MaxRegistrations, Settings) /\ [][NextRegistry]_vars

\* The scheduling of an operation with a context handed in by the caller.
\* A parameter value is reduced to the kind of its class: a string, a
\* datetime, an AssistanceObject or a function.
ValueKinds == {"str", "datetime", "AssistanceObject", "function"}

\* value.__class__.__module__
ClassModule(kind) ==
    CASE kind \in {"str", "function"} -> "builtins"
      [] kind = "datetime" -> "datetime"
      [] OTHER -> "model.core.tutorial_module"

\* whether insert_one can encode the value
Encodable(kind) == kind \in {"str", "datetime"}

\* AssistanceContext.__init__: the dictionary is taken as it is
ContextOf(parameter_dict) ==
    [parameter_dict |-> parameter_dict, context_can_be_persisted |-> TRUE, err |-> None]

\* AssistanceContext.add_parameter
add_parameter(ctx, parameter_key, parameter_value) ==
    IF parameter_key \in DOMAIN ctx.parameter_dict
    THEN [ctx EXCEPT !.err = "AssistanceParameterException"]
    ELSE [ctx EXCEPT !.context_can_be_persisted =
                         IF ClassModule(parameter_value) = "__builtin__" THEN FALSE ELSE @,
                     !.parameter_dict = Put(@, parameter_key, parameter_value)]

RECURSIVE AddAll(_, _)
AddAll(ctx, added) ==
    IF added = <<>> \/ ctx.err # None THEN ctx
    ELSE AddAll(add_parameter(ctx, Head(added)[1], Head(added)[2]), Tail(added))

\* schedule_operation for a context of the caller: the test of the key, the
\* test of context_can_be_persisted, and the insert of the entry, which fails
\* in the driver when a value of the context cannot be encoded
schedule_operation_with_context(w, type, key, ctx, time_to_invocation_in_s, a_id) ==
    IF ~is_operation_registered(type, key) THEN Raise(w, "AssistanceOperationException")
    ELSE IF ~ctx.context_can_be_persisted
         THEN Raise(w, "AssistanceOperationCanNotBeScheduledException")
    ELSE IF \E k \in DOMAIN ctx.parameter_dict : ~Encodable(ctx.parameter_dict[k])
         THEN Raise(w, "InvalidDocument")
    ELSE schedule_operation(w, type, key, time_to_invocation_in_s, a_id)

\* a context is built from a dictionary and up to MaxAdded added parameters
\* and the screencast hint is scheduled with it; pending keeps the context
ScheduleWithContext ==
    /\ budget > 0
    /\ \E first \in {<<>>} \cup {[p_1 |-> kind] : kind \in ValueKinds}, n \in 0..MaxAdded :
          \E added \in [1..n -> {"p_1", "p_2"} \X ValueKinds] :
              \E ctx \in {AddAll(ContextOf(Put(first, "a_id", "str")), added)} :
                  \E w \in {IF ctx.err # None THEN Raise(Current, ctx.err)
                            ELSE schedule_operation_with_context(
                                     Current, GREETING, SCREENCAST_HINT, ctx, 5, 1)} :
                      /\ Commit(w)
                      /\ last' = Invocation("schedule", 1, w, <<>>, <<>>, <<>>)
                      /\ pending' = <<ctx>>
    /\ budget' = budget - 1
    /\ UNCHANGED <<now, settings>>

SpecContext == Start(MaxContextInvocations, Settings) /\ [][ScheduleWithContext]_vars

\* One group whose members report their reading progress: the initiation,
\* the request of the step that puts the wait for the progress reports into
\* next_operation_keys, and reports with the expected value and another one.
AbsentRequests ==
    {<<PEER, ASSISTANCE_OPERATION_KEY_INITIATION,
       [AssistanceContext(0) EXCEPT !.initiator = "u1", !.collaborators = <<"u1", "u2">>]>>,
     <<PEER, "review_solution_peer_step_2", AssistanceContext(1)>>}

AbsentResponses ==
    {ResponseObject(u, "state_update_response", value) :
        u \in Users, value \in {"standby", "active"}}

NextAbsent ==
    \/ HandleRequest(AbsentRequests)
    \/ AppendResponse(AbsentResponses)

SpecAbsent == Start(MaxAbsentInvocations, Settings) /\ [][NextAbsent]_vars

\* the filter of _process_assistance_result on the instance the update
\* returned: the objects whose ids were not among those read before the update
FilterPrevious(w, persisted, previous_assistance_object_ao_ids) ==
    [i \in DOMAIN persisted |->
        [a_id |-> persisted[i].a_id,
         assistance_objects |->
            SelectSeq(w.assistance[persisted[i].a_id].assistance_objects,
                      LAMBDA ao_id : ao_id \notin Range(previous_assistance_object_ao_ids))]]

\* Two service processes on one store, the continuation of a response in the
\* second one taken in two steps split inside _process_assistance_result:
\* up to the read of the previous objects (read_assistance_by_a_id before the
\* update), and from the find_one of the update to the return.
PersistBegin(response_objects) ==
    /\ budget > 0
    /\ pending = <<>>
    /\ \E a_id \in DOMAIN assistance, o \in response_objects :
          \E w1 \in {update_assistance_by_a_id_adding_assistance_objects(
                          Current, a_id, AsResponse(<<o>>))} :
              /\ ~Failed(w1)
              /\ Len(w1.assistance[a_id].next_operation_keys) = 1
              /\ \E c \in {[type |-> w1.assistance[a_id].type_key,
                              key |-> w1.assistance[a_id].next_operation_keys[1],
                              ctx |-> ResponseContext(a_id, AsResponse(<<o>>))]} :
                    /\ is_operation_registered(c.type, c.key)
                    /\ \E op \in {RegisteredOperation(c.type, c.key)} :
                          /\ is_applicable_error(op, c.ctx) = None
                          /\ is_applicable(w1, op, c.ctx)
                          /\ \E r \in {_execute(w1, [op EXCEPT !.reset_next_operation_keys =
                                                              @ \/ op.subsequent_declared],
                                                  c.ctx, c.key)} :
                                /\ r.err = None /\ ~r.none /\ r.assistance # <<>>
                                /\ \E w2 \in {IF ResetRequired(r.op)
                                              THEN update_assistance_by_a_id_reset_next_operation_keys(
                                                       w1, a_id)
                                              ELSE w1} :
                                      \E w3 \in {IF DeleteRequired(r.op)
                                                 THEN delete_assistance_operations_by_a_id(w2, a_id)
                                                 ELSE w2} :
                                          /\ pending' = <<[type |-> c.type, key |-> c.key,
                                                           ctx |-> c.ctx, r |-> r,
                                                           previous |->
                                                               w3.assistance[a_id].assistance_objects]>>
                                          /\ Commit(w3)
                                          /\ last' = Invocation("read", a_id, w3, <<>>, <<>>, <<>>)
    /\ budget' = budget - 1
    /\ UNCHANGED <<now, settings>>

PersistEnd ==
    /\ pending # <<>>
    /\ \E c \in {pending[1]} :
          \E p \in {ProcessAll(Current, c.type, c.r.op, PhaseNumber(c.type, c.key), c.key,
                                c.ctx, c.r.assistance,
                                SubsequentQueue(c.r.op, SCHEDULED_OPERATION),
                                SubsequentQueue(c.r.op, TRIGGERED_OPERATION), <<>>)} :
              \E w \in {Logged(Current, p.w, c.type, c.key, c.ctx, c.r.op,
                                c.r.op.subsequent_operations, p.persisted, TRUE)} :
                  /\ Commit(w)
                  /\ last' = Invocation("write", c.ctx.a_id, w,
                                        FilterPrevious(p.w, p.persisted, c.previous),
                                        <<>>, <<>>)
    /\ pending' = <<>>
    /\ UNCHANGED <<now, settings, budget>>

NextPersist ==
    \/ HandleRequest(GroupRequests)
    \/ AppendResponse(GroupResponses)
    \/ PersistBegin(GroupResponses)
    \/ PersistEnd

SpecPersist == Start(MaxRaceInvocations, Settings) /\ [][NextPersist]_vars

\* The state update as a function of the operation and the instance.  The
\* operations are configured as the processes register them: a step of the
\* peer collaboration, the same having set its related users as the wait
\* does, the hint of the greeting, and the abort of the offer of assistance
\* options, registered without phase and step and with
\* send_state_update_to_related_users off.  The instances are a new one and
\* stored ones in progress, with and without related users.
AbortOfferAssistanceOptionsNoOptionSelected ==
    WithSubsequent(
        [post_init(AssistanceOperation("AbortOfferAssistanceOptionsNoOptionSelected")) EXCEPT
            !.target_status = ABORTED,
            !.delete_scheduled_operations = TRUE,
            !.send_state_update_to_related_users = FALSE],
        <<>>)

StateUpdateCalls ==
    {[op |-> op, phase |-> 2, step |-> "task_description_step_2"] :
        op \in {InProgress("SendObjectsToUsers")}
               \cup {[InProgress("HandleWaitForObject") EXCEPT
                         !.related_set = TRUE, !.related_user_ids = <<u>>] : u \in Users}}
    \cup {[op |-> op, phase |-> 0, step |-> None] :
             op \in {ToolcheckScreencastHint, AbortOfferAssistanceOptionsNoOptionSelected}}

StateUpdateInstances ==
    {NewAssistance(u, <<>>) : u \in Users}
    \cup {[NewAssistance(u, <<>>) EXCEPT
              !.a_id = 1,
              !.assistance_state = AssistanceState(IN_PROGRESS, phase, "initiation"),
              !.related_user_ids = related] :
            u \in Users, phase \in 1..2, related \in {<<>>, <<"u2">>, <<"u1", "u2">>}}

ComputeStateUpdate ==
    /\ budget > 0
    /\ \E c \in StateUpdateCalls, a \in StateUpdateInstances :
          /\ pending' = <<[op |-> c.op, assistance |-> a]>>
          /\ last' = Invocation("state_update", a.a_id, Current,
                                DetermineStateUpdate(c.op, a, c.phase, c.step).new_objects,
                                <<>>, <<>>)
    /\ budget' = budget - 1
    /\ UNCHANGED <<assistance, objects, operations, op_counter, now, settings, requested,
                   registry>>

NextStateUpdate == ComputeStateUpdate

SpecStateUpdate == Start(MaxStateUpdates, Settings) /\ [][NextStateUpdate]_vars

\* The registration of phases as a function of the phases.  A step is keyed
\* by its place, has no schedule or one of 5 seconds, and its operation
\* declares no subsequent operation or one of its own.  A process registers
\* its phases once, in its constructor.
StepKey(p, i) == <<"step", p, i>>

StepChoices ==
    {[operation |-> [AssistanceOperation("PeerInitiation") EXCEPT !.target_status = IN_PROGRESS],
      schedule |-> 0],
     [operation |-> [AssistanceOperation("PeerInitiation") EXCEPT !.target_status = IN_PROGRESS],
      schedule |-> 5],
     [operation |-> WithSubsequent(SendObjectsToUsers(<<"message">>), Triggered(FORWARD)),
      schedule |-> 5]}

PhasesToRegister ==
    UNION {UNION {[1..n -> [1..m -> StepChoices]] : m \in 1..MaxSteps} : n \in 1..MaxPhases}

StepsOf(choices) ==
    [p \in DOMAIN choices |->
        [i \in DOMAIN choices[p] |->
            AssistancePhaseStep(StepKey(p, i), choices[p][i].operation,
                                choices[p][i].schedule)]]

RegisterDrawnPhases ==
    /\ budget > 0
    /\ pending = <<>>
    /\ \E choices \in PhasesToRegister :
          /\ pending' = <<StepsOf(choices)>>
          /\ last' = Invocation("register", 0, Current, _register_phases(StepsOf(choices)),
                                <<>>, <<>>)
    /\ budget' = budget - 1
    /\ UNCHANGED <<assistance, objects, operations, op_counter, now, settings, requested,
                   registry>>

NextPhases == RegisterDrawnPhases

SpecPhases == Start(MaxRegistrations, Settings) /\ [][NextPhases]_vars

\* The requests an operation hands back for chained resolution.  Of the
\* operations registered in ASSISTANCE_TYPES only three of the offer of
\* assistance options construct any: the initiation one abortion for each
\* instance of the type the user has in progress, the wait for the chosen
\* option one abortion for each peer exchange the user has in progress, and
\* the wait for the confirmation of the peer the initiation of a peer
\* exchange or of the question for the willingness to exchange.  The number
\* of instances in progress is drawn up to MaxChained.
OFFER == "offer_assistance_options"

PEER_EXCHANGE == "peer_exchange"

EXCHANGE_WILLINGNESS == "ask_for_exchange_willingness"

ASSISTANCE_OPERATION_KEY_ABORTION == "abortion"

AssistanceRequest(type, key) == [assistance_type_key |-> type, assistance_operation_key |-> key]

\* variant: the abortion of an offer starts the offer for the user again
assistance_requests_Restarting(type, key) ==
    IF type = OFFER /\ key \in {ASSISTANCE_OPERATION_KEY_INITIATION,
                                ASSISTANCE_OPERATION_KEY_ABORTION}
    THEN {<<AssistanceRequest(OFFER, IF key = ASSISTANCE_OPERATION_KEY_ABORTION
                                     THEN ASSISTANCE_OPERATION_KEY_INITIATION
                                     ELSE ASSISTANCE_OPERATION_KEY_ABORTION)>>}
    ELSE {<<>>}

\* AssistanceResult.assistance_requests of the operation key of type: the
\* set of the lists it can be
assistance_requests(type, key) ==
    IF type = OFFER /\ key = ASSISTANCE_OPERATION_KEY_INITIATION
    THEN {[i \in 1..n |-> AssistanceRequest(OFFER, ASSISTANCE_OPERATION_KEY_ABORTION)] :
             n \in 0..MaxChained}
    ELSE IF type = OFFER /\ key = "wait_for_option_response"
    THEN {[i \in 1..n |-> AssistanceRequest(PEER_EXCHANGE, ASSISTANCE_OPERATION_KEY_ABORTION)] :
             n \in 0..MaxChained}
    ELSE IF type = OFFER /\ key = "wait_for_peer_confirmation"
    THEN {<<>>,
          <<AssistanceRequest(PEER_EXCHANGE, ASSISTANCE_OPERATION_KEY_INITIATION)>>,
          <<AssistanceRequest(EXCHANGE_WILLINGNESS, ASSISTANCE_OPERATION_KEY_INITIATION)>>}
    ELSE {<<>>}

\* the requests that reach __handle_assistance_request from outside
RequestsToResolve ==
    {AssistanceRequest(OFFER, key) :
        key \in {ASSISTANCE_OPERATION_KEY_INITIATION, "wait_for_option_response",
                 "wait_for_peer_confirmation", "abort_offer_assistance_options",
                 "abort_no_peer_answering", ASSISTANCE_OPERATION_KEY_ABORTION}}
    \cup {AssistanceRequest(type, key) :
             type \in {PEER_EXCHANGE, EXCHANGE_WILLINGNESS, PEER, GREETING},
             key \in {ASSISTANCE_OPERATION_KEY_INITIATION, ASSISTANCE_OPERATION_KEY_ABORTION}}

\* __handle_assistance_request, one invocation of an operation at a step:
\* pending holds the requests still to be handled, the chained ones of an
\* operation before the rest, each with the depth of its recursion, and
\* last.returned the requests handled so far for the request from outside.
\* A recursion deeper than MaxDepth is not followed.
ResolveBegin ==
    /\ budget > 0
    /\ pending = <<>>
    /\ \E request \in RequestsToResolve :
          pending' = <<[request |-> request, depth |-> 0]>>
    /\ last' = Invocation("resolve", 0, Current, <<>>, <<>>, <<>>)
    /\ budget' = budget - 1
    /\ UNCHANGED <<assistance, objects, operations, op_counter, now, settings, requested,
                   registry>>

ResolveStep ==
    /\ pending # <<>>
    /\ Head(pending).depth < MaxDepth
    /\ \E chained \in assistance_requests(Head(pending).request.assistance_type_key,
                                          Head(pending).request.assistance_operation_key) :
          pending' = [i \in DOMAIN chained |->
                         [request |-> chained[i], depth |-> Head(pending).depth + 1]]
                     \o Tail(pending)
    /\ last' = [last EXCEPT !.returned = Append(@, Head(pending))]
    /\ UNCHANGED <<assistance, objects, operations, op_counter, now, settings, requested,
                   registry, budget>>

NextResolve == ResolveBegin \/ ResolveStep

\* an invocation runs to its end
SpecResolve ==
    Start(MaxResolutions, Settings) /\ [][NextResolve]_vars /\ WF_vars(ResolveStep)

\* One group asked for its solutions: the initiation, the request of the
\* step that asks for the solutions and schedules its own repetition, the
\* solutions of the members, and the sweeps that repeat the request.
ProgressRequests ==
    {<<PEER, ASSISTANCE_OPERATION_KEY_INITIATION,
       [AssistanceContext(0) EXCEPT !.initiator = "u1", !.collaborators = <<"u1", "u2">>]>>,
     <<PEER, "individual_solution_development_step_5", AssistanceContext(1)>>}

NextProgress ==
    \/ HandleRequest(ProgressRequests)
    \/ AppendResponse(GroupResponses)
    \/ DueSweep({{}})
    \/ Tick(MaxTime)

SpecProgress == Start(MaxProgressInvocations, Settings) /\ [][NextProgress]_vars

\* One group that can hand in its final solutions, which completes the
\* instance, and be asked for steps afterwards.
NextTerminal ==
    \/ HandleRequest(GroupRequests)
    \/ AppendResponse(GroupResponses)

SpecTerminal == Start(MaxTerminalInvocations, Settings) /\ [][NextTerminal]_vars

----------------------------------------------------------------------------
(* Properties.                                                              *)

Executions == {last.log[i] : i \in DOMAIN last.log}

\* C1: every operation that requires an instance in progress is found not
\* applicable when its context carries no instance id, an id of no stored
\* instance, or the id of a COMPLETED or ABORTED instance.
C1_NotApplicableWithoutUsableInstance ==
    \A x \in Executions :
        /\ RegisteredOperation(x.assistance_type_key,
                               x.operation_key).assistance_in_progress_required
        /\ \/ x.a_id = 0
           \/ x.a_id \notin DOMAIN x.before.assistance
           \/ x.before.assistance[x.a_id].assistance_state.status \in TerminalStatus
        => ~x.applicable

\* C2: a response appended to an instance whose status is COMPLETED or
\* ABORTED fails with CompletedAssistanceModifyException, stores none of the
\* response objects and executes no continuation operation.
C2_TerminalAppendFails ==
    [][\A a_id \in DOMAIN assistance :
          /\ last'.kind = "response"
          /\ last'.a_id = a_id
          /\ assistance[a_id].assistance_state.status \in TerminalStatus
          => /\ last'.err = "CompletedAssistanceModifyException"
             /\ objects' = objects
             /\ assistance' = assistance
             /\ last'.log = <<>>]_vars

\* a response was appended to a stored COMPLETED or ABORTED instance
C2_Witness ==
    /\ last.kind = "response"
    /\ last.a_id \in DOMAIN assistance
    /\ assistance[last.a_id].assistance_state.status \in TerminalStatus
    /\ last.err = "CompletedAssistanceModifyException"

C4_NextOperationKeysAreTriggered ==
    \A x \in Executions :
        x.applicable /\ ~x.prevent_progress
        => \A i \in DOMAIN x.persisted :
              LET stored == x.after.assistance[x.persisted[i]].next_operation_keys
                  follow_ups == Range(x.subsequent_operations)
              IN /\ stored = OperationKeys(SeqFilterKeys(x.subsequent_operations,
                                                         TRIGGERED_OPERATION))
                 /\ \A s \in follow_ups :
                       /\ s.type = SCHEDULED_OPERATION
                       /\ \A t \in follow_ups :
                              t.type = TRIGGERED_OPERATION => t.operation_key # s.operation_key
                       => s.operation_key \notin Range(stored)

\* an execution with a TRIGGERED and a SCHEDULED follow-up persisted an instance
C4_Witness ==
    \E x \in Executions :
        /\ x.applicable /\ ~x.prevent_progress /\ x.persisted # <<>>
        /\ \E s, t \in Range(x.subsequent_operations) :
              s.type = SCHEDULED_OPERATION /\ t.type = TRIGGERED_OPERATION

\* C5 as stated: after an execution with prevent_progress set (one that raised
\* no error and persisted the instance), the stored next_operation_keys of
\* the instance are empty.
C5_NextOperationKeysCleared ==
    \A x \in Executions :
        x.applicable /\ x.prevent_progress /\ x.err = None /\ x.persisted = <<x.a_id>>
        => x.after.assistance[x.a_id].next_operation_keys = <<>>

\* C5, amended: after an execution with prevent_progress set, the stored
\* next_operation_keys of the instance are the ones stored before it.
C5_NextOperationKeysKept ==
    \A x \in Executions :
        x.applicable /\ x.prevent_progress /\ x.a_id \in DOMAIN x.before.assistance
        => x.after.assistance[x.a_id].next_operation_keys
               = x.before.assistance[x.a_id].next_operation_keys

\* an execution with prevent_progress set persisted an instance whose
\* next_operation_keys were not empty
C5_Witness ==
    \E x \in Executions :
        /\ x.applicable /\ x.prevent_progress /\ x.persisted = <<x.a_id>>
        /\ x.before.assistance[x.a_id].next_operation_keys # <<>>
        /\ x.after.assistance[x.a_id].assistance_objects
               # x.before.assistance[x.a_id].assistance_objects

\* C6: an execution with prevent_progress set leaves the stored state of the
\* instance as it was and neither creates nor deletes a scheduled operation,
\* whatever target status, follow-ups and bulk-delete flag the operation
\* declares.
C6_PreventProgressKeepsStateAndSchedule ==
    \A x \in Executions :
        x.applicable /\ x.prevent_progress /\ x.a_id \in DOMAIN x.before.assistance
        => /\ x.after.assistance[x.a_id].assistance_state
                  = x.before.assistance[x.a_id].assistance_state
           /\ x.after.operations = x.before.operations

\* an operation declaring a target status, a SCHEDULED follow-up and the bulk
\* delete persisted an instance with prevent_progress set while a scheduled
\* operation of the instance was pending
C6_Witness ==
    \E x \in Executions :
        /\ x.applicable /\ x.prevent_progress /\ x.persisted = <<x.a_id>>
        /\ x.target_status # None
        /\ x.delete_scheduled_operations
        /\ \E s \in Range(x.subsequent_operations) : s.type = SCHEDULED_OPERATION
        /\ \E e \in Range(x.before.operations) : e.a_id = x.a_id
        /\ x.after.assistance[x.a_id].assistance_objects
               # x.before.assistance[x.a_id].assistance_objects

\* the scheduled operations that execution x wrote for instance a_id and
\* follow-up s
Written(x, a_id, s) ==
    {e \in Range(x.after.operations) :
        /\ e.id \notin {b.id : b \in Range(x.before.operations)}
        /\ e.a_id = a_id
        /\ e.assistance_operation_key = s.operation_key}

\* C7 as stated: an execution at time T of an operation with a SCHEDULED
\* follow-up of delay D writes, for each instance it persists, exactly one
\* scheduled operation for that follow-up, owned by the instance and due at
\* T + D * factor.
C7_ScheduledFollowUpWritten ==
    \A x \in Executions : \A s \in Range(x.subsequent_operations) :
        x.applicable /\ x.err = None /\ s.type = SCHEDULED_OPERATION
        => \A i \in DOMAIN x.persisted :
              /\ Cardinality(Written(x, x.persisted[i], s)) = 1
              /\ \A e \in Written(x, x.persisted[i], s) :
                    e.time_of_invocation = x.time + s.time_to_invocation_in_s * TimeFactor

\* C7, amended: the same for executions without prevent_progress; with
\* prevent_progress set no scheduled operation is written.
C7_ScheduledFollowUpWrittenUnlessPrevented ==
    \A x \in Executions : \A s \in Range(x.subsequent_operations) :
        x.applicable /\ x.err = None /\ s.type = SCHEDULED_OPERATION
        => \A i \in DOMAIN x.persisted :
              IF x.prevent_progress THEN Written(x, x.persisted[i], s) = {}
              ELSE /\ Cardinality(Written(x, x.persisted[i], s)) = 1
                   /\ \A e \in Written(x, x.persisted[i], s) :
                         e.time_of_invocation
                             = x.time + s.time_to_invocation_in_s * TimeFactor

\* with the debug time factor configured, an execution without
\* prevent_progress persisted an instance and wrote a SCHEDULED follow-up
C7_Witness ==
    \E x \in Executions : \E s \in Range(x.subsequent_operations) :
        /\ x.applicable /\ x.err = None /\ ~x.prevent_progress
        /\ s.type = SCHEDULED_OPERATION /\ s.time_to_invocation_in_s > 0
        /\ x.persisted # <<>>
        /\ TimeFactor > 1
        /\ Written(x, x.persisted[1], s) # {}

C9_AbortedAtMaxNumberOfRetries ==
    \A a_id \in DOMAIN assistance :
        /\ requested[a_id] <= MAX_NUMBER_OF_RETRIES
        /\ assistance[a_id].assistance_state.status = ABORTED
               <=> requested[a_id] = MAX_NUMBER_OF_RETRIES
        /\ assistance[a_id].assistance_state.status = ABORTED
               => \A i \in DOMAIN operations : operations[i].a_id # a_id

\* the sweep that executed the request for the seventeenth time has just
\* aborted the instance
C9_Witness ==
    /\ last.kind = "sweep"
    /\ \E x \in Executions :
          /\ x.applicable /\ x.err = None /\ x.target_status = ABORTED
          /\ x.before.assistance[x.a_id].retries = MAX_NUMBER_OF_RETRIES - 1
          /\ x.before.assistance[x.a_id].assistance_state.status = IN_PROGRESS
          /\ assistance[x.a_id].assistance_state.status = ABORTED
          /\ requested[x.a_id] = MAX_NUMBER_OF_RETRIES

\* C10: the write that ends an invocation stores the parameters of the
\* instance (the received objects, the number of retries) exactly as the
\* invocation computed them from the instance it read, whatever another
\* invocation stored in between, while it keeps every object reference stored
\* until then: an update another invocation made in between is lost.
C10_WriteStoresWhatWasComputedFromTheRead ==
    [][(pending # <<>> /\ pending' = <<>> /\ last'.err = None
           /\ ~pending[1].r.none /\ pending[1].r.assistance # <<>>)
       => /\ assistance'[pending[1].ctx.a_id].received
                = pending[1].r.assistance[1].received
          /\ assistance'[pending[1].ctx.a_id].retries
                = pending[1].r.assistance[1].retries
          /\ \A i \in DOMAIN assistance[pending[1].ctx.a_id].assistance_objects :
                assistance'[pending[1].ctx.a_id].assistance_objects[i]
                    = assistance[pending[1].ctx.a_id].assistance_objects[i]]_vars

\* a lost update: the invocation taken in two steps has ended without error,
\* and the solution that another invocation had stored for a user between its
\* read and its write is no longer stored with the instance
C10_Witness ==
    /\ last.kind = "write"
    /\ last.err = None
    /\ \E x \in Executions :
          /\ x.applicable /\ x.err = None /\ x.persisted = <<x.a_id>>
          /\ \E u \in Range(x.before.assistance[x.a_id].received.solutions) :
                u \notin Range(assistance[x.a_id].received.solutions)
          /\ assistance[x.a_id].received.solutions # <<>>

\* C11: an entry that is no longer stored when the loop of a due sweep begins,
\* deleted individually or by a bulk delete for its instance, is not executed
\* by that sweep.
C11_DeletedEntryNotExecuted ==
    [][last'.kind = "sweep" =>
          \A j \in DOMAIN last'.swept :
              last'.swept[j].executed =>
                  \E i \in DOMAIN operations :
                      operations[i].id = last'.swept[j].entry.id]_vars

C14_FailureOfOneEntryLeavesTheOthers ==
    [][last'.kind = "sweep" =>
          \A f \in DOMAIN last'.swept :
              last'.swept[f].err # None =>
                  \A i \in DOMAIN operations :
                      (operations[i].time_of_invocation <= now
                           /\ operations[i] # last'.swept[f].entry) =>
                          \E j \in DOMAIN last'.swept :
                              /\ last'.swept[j].entry = operations[i]
                              /\ last'.swept[j].err = None =>
                                    /\ last'.swept[j].executed
                                    /\ \A k \in DOMAIN operations' :
                                          operations'[k].id # operations[i].id]_vars

\* the handling of the first of two due entries raised, and the second was
\* executed and removed while the first is still stored
C14_Witness ==
    /\ last.kind = "sweep"
    /\ Len(last.swept) = 2
    /\ last.swept[1].err # None
    /\ last.swept[2].err = None /\ last.swept[2].executed
    /\ \E k \in DOMAIN operations : operations[k].id = last.swept[1].entry.id
    /\ \A k \in DOMAIN operations : operations[k].id # last.swept[2].entry.id

\* C15: an execution without prevent_progress of an operation that requires
\* an instance in progress and has delete_scheduled_operations set leaves in
\* the store, for that instance, none of the entries that were stored before
\* it and, when it raised no error, exactly one new entry for each of its
\* SCHEDULED subsequent operations.
C15_BulkDeleteKeepsOnlyOwnFollowUps ==
    \A x \in Executions :
        (/\ x.applicable
         /\ x.delete_scheduled_operations
         /\ ~x.prevent_progress
         /\ RegisteredOperation(x.assistance_type_key, x.operation_key)
                .assistance_in_progress_required) =>
            /\ \A i \in DOMAIN x.after.operations :
                  x.after.operations[i].a_id = x.a_id =>
                      \A k \in DOMAIN x.before.operations :
                          x.before.operations[k].id # x.after.operations[i].id
            /\ x.err = None =>
                  /\ Cardinality({i \in DOMAIN x.after.operations :
                                     x.after.operations[i].a_id = x.a_id})
                        = Cardinality({i \in DOMAIN x.subsequent_operations :
                                          x.subsequent_operations[i].type = "SCHEDULED_OPERATION"})
                  /\ \A i \in DOMAIN x.subsequent_operations :
                        x.subsequent_operations[i].type = "SCHEDULED_OPERATION" =>
                            \E k \in DOMAIN x.after.operations :
                                /\ x.after.operations[k].a_id = x.a_id
                                /\ x.after.operations[k].assistance_operation_key
                                       = x.subsequent_operations[i].operation_key
                                /\ x.after.operations[k].time_of_invocation >= x.time

\* such an execution has deleted an entry of the instance and scheduled one
C15_Witness ==
    \E x \in Executions :
        /\ x.applicable /\ x.err = None
        /\ x.delete_scheduled_operations /\ ~x.prevent_progress
        /\ \E k \in DOMAIN x.before.operations : x.before.operations[k].a_id = x.a_id
        /\ \E i \in DOMAIN x.after.operations : x.after.operations[i].a_id = x.a_id

C17_NoObjectForUserAhead ==
    \A x \in Executions :
        (/\ x.applicable
         /\ RegisteredOperation(x.assistance_type_key, x.operation_key).cls = "SendObjectsToUsers"
         /\ x.operation_key \in PeerStepKeys
         /\ x.a_id \in DOMAIN x.before.assistance) =>
            \A i \in (x.before.objects + 1)..x.after.objects :
                ~UserIsAhead(x.before.assistance[x.a_id], objects[i].user_id,
                             registered_operation_keys_to_step_number(x.operation_key))

\* such an execution has stored objects while a related user was ahead
C17_Witness ==
    \E x \in Executions :
        /\ x.applicable /\ x.err = None
        /\ RegisteredOperation(x.assistance_type_key, x.operation_key).cls = "SendObjectsToUsers"
        /\ x.operation_key \in PeerStepKeys
        /\ x.a_id \in DOMAIN x.before.assistance
        /\ x.after.objects > x.before.objects
        /\ \E u \in Users :
              UserIsAhead(x.before.assistance[x.a_id], u,
                          registered_operation_keys_to_step_number(x.operation_key))

\* C18: when the result of an operation carries chained requests and all of
\* them return a result, the returned sequence holds the instances of the
\* chained requests, in the order of the requests, and the instances of the
\* originating operation: the chained ones first when the flag
\* prepend_assistance_from_requests is set, the originating ones first
\* otherwise.
C18_ChainedInstancesOrderedByFlag ==
    (/\ last.kind = "chained"
     /\ last.err = None
     /\ ~pending[1].result.none
     /\ pending[1].results # <<>>) =>
        /\ \A i, j \in DOMAIN last.returned :
              (last.returned[i].a_id \in {3, 4} /\ last.returned[j].a_id \in {1, 2}) =>
                  IF pending[1].prepend THEN i < j ELSE j < i
        /\ SelectSeq(last.returned, LAMBDA x : x.a_id \in {1, 2}) = pending[1].result.assistance
        /\ SelectSeq(last.returned, LAMBDA x : x.a_id \in {3, 4})
              = Concat([i \in DOMAIN pending[1].results |-> pending[1].results[i].assistance])

\* the flag was set and instances of two chained requests were put before
\* two instances of the originating operation
C18_Witness ==
    /\ last.kind = "chained"
    /\ last.err = None
    /\ pending[1].prepend
    /\ Len(pending[1].results) = 2
    /\ Len(last.returned) = 4
    /\ last.returned[1].a_id = 3
    /\ last.returned[4].a_id = 2

\* the executions of the greeting initiation for a "logged in" statement
\* whose user has experiences in the given set
Greeted(experiences) ==
    {x \in Executions :
        /\ x.assistance_type_key = GREETING
        /\ x.operation_key = ASSISTANCE_OPERATION_KEY_INITIATION
        /\ x.statement.verb = "logged_in"
        /\ x.statement.experiences \in experiences}

\* what both scenarios share: the execution raises nothing, creates one
\* instance of the greeting type owned by the user of the statement and gives
\* it exactly one object, a message to that user, which is returned
GreetedOnce(x) ==
    /\ x.applicable /\ x.err = None
    /\ Len(x.after.assistance) = Len(x.before.assistance) + 1
    /\ x.persisted = <<Len(x.after.assistance)>>
    /\ x.after.assistance[x.persisted[1]].type_key = GREETING
    /\ x.after.assistance[x.persisted[1]].user_id = x.statement.user
    /\ x.after.objects = x.before.objects + 1
    /\ objects[x.after.objects].key = "message"
    /\ objects[x.after.objects].user_id = x.statement.user
    /\ objects[x.after.objects].a_id = x.persisted[1]
    /\ \E i \in DOMAIN last.returned :
          /\ last.returned[i].a_id = x.persisted[1]
          /\ last.returned[i].assistance_objects = <<x.after.objects>>
    /\ \A i \in DOMAIN x.before.operations :
          \E k \in DOMAIN x.after.operations : x.after.operations[k] = x.before.operations[i]

\* the scheduled operations written by x for the instance it created
ScheduledBy(x) ==
    {x.after.operations[i] : i \in {k \in DOMAIN x.after.operations :
        /\ x.after.operations[k].a_id = x.persisted[1]
        /\ \A j \in DOMAIN x.before.operations :
              x.before.operations[j].id # x.after.operations[k].id}}

C20_ReturningLoginCompleted ==
    \A x \in Greeted({2}) :
        /\ GreetedOnce(x)
        /\ x.after.assistance[x.persisted[1]].assistance_state.status = COMPLETED
        /\ x.after.operations = x.before.operations

\* a returning login was greeted while a scheduled operation was stored
C20_Witness ==
    \E x \in Greeted({2}) :
        /\ x.applicable /\ x.err = None
        /\ x.before.operations # <<>>
        /\ Len(x.after.assistance) > 1

\* C21: invoking a registered operation whose is_applicable returns False
\* raises nothing, returns an absent result and leaves the stored instances,
\* their objects and the scheduled operations as they were.
C21_NotApplicableIsSilentNoOp ==
    /\ \A x \in Executions :
          ~x.applicable => x.err = None /\ x.after = x.before
    /\ (last.kind = "request" /\ Len(last.log) = 1 /\ ~last.log[1].applicable)
          => /\ last.err = None
             /\ last.returned = <<>>
             /\ last.log[1].after.assistance = assistance
             /\ last.log[1].after.operations = operations
             /\ last.log[1].after.objects = Len(objects)
    /\ \A rq \in Requests :
          (/\ is_operation_registered(rq[1], rq[2])
           /\ is_applicable_error(RegisteredOperation(rq[1], rq[2]), rq[3]) = None
           /\ ~is_applicable(Current, RegisteredOperation(rq[1], rq[2]), rq[3]))
          => Let(check_applicability_and_execute_operation(Current, rq[1], rq[2], rq[3]),
                 LAMBDA r : /\ r.none
                            /\ r.assistance = <<>>
                            /\ ~Failed(r.w)
                            /\ r.w.assistance = assistance
                            /\ r.w.objects = objects
                            /\ r.w.operations = operations)

\* an operation requested for no instance id was found not applicable while
\* an instance and a scheduled operation were stored
C21_Witness ==
    /\ last.kind = "request"
    /\ Len(last.log) = 1
    /\ ~last.log[1].applicable
    /\ assistance # <<>>
    /\ operations # <<>>

\* C22: when a chained request returns an absent result, because its
\* operation is not applicable or its execution returned nothing, it
\* contributes no instance and raises no error: the resolver returns the
\* instances of the originating operation and those of the other chained
\* requests.
C22_AbsentChainedResultContributesNothing ==
    (/\ last.kind = "chained"
     /\ ~pending[1].result.none
     /\ \E i \in DOMAIN pending[1].results : pending[1].results[i].none) =>
        /\ last.err = None
        /\ SelectSeq(last.returned, LAMBDA x : x.a_id \in {1, 2}) = pending[1].result.assistance
        /\ SelectSeq(last.returned, LAMBDA x : x.a_id \in {3, 4})
              = Concat([i \in DOMAIN pending[1].results |-> pending[1].results[i].assistance])

\* C23: an operation key that is not registered for the process type raises
\* AssistanceOperationException to the caller of the entry point that
\* referenced it: a request for the key, an event or a response that reaches
\* an instance in progress whose next_operation_keys hold the key, and a
\* sweep over a due entry with the key.  It is never swallowed.
C23_UnregisteredKeyIsRaised ==
    /\ [](\A rq \in LegacyRequests :
             ~is_operation_registered(rq[1], rq[2])
             => assistance_by_request(Current, rq[1], rq[2], rq[3]).w.err
                    = "AssistanceOperationException")
    /\ [][\A a_id \in DOMAIN assistance :
             (/\ \E i \in DOMAIN assistance[a_id].next_operation_keys :
                    ~is_operation_registered(assistance[a_id].type_key,
                                             assistance[a_id].next_operation_keys[i])
              /\ \/ /\ last'.kind = "event"
                    /\ assistance[a_id].assistance_state.status \in {INITIATED, IN_PROGRESS}
                 \/ /\ last'.kind = "response"
                    /\ last'.a_id = a_id
                    /\ assistance[a_id].assistance_state.status \notin TerminalStatus)
             => last'.err = "AssistanceOperationException"]_vars
    /\ [](last.kind = "sweep" =>
             \A i \in DOMAIN last.swept :
                 ~is_operation_registered(last.swept[i].entry.assistance_type_key,
                                          last.swept[i].entry.assistance_operation_key)
                 => last.swept[i].err = "AssistanceOperationException")

\* C24: when the evaluation of the initiation of one process type fails
\* during an event, with whatever error, the initiations of the process types
\* after it and the next operation keys of the instances in progress are
\* still evaluated in the same call.
C24_InitiationFailureIsIsolated ==
    [][(last'.kind = "event" /\ pending' # <<>>) =>
          \A i \in DOMAIN ASSISTANCE_TYPES :
              (/\ ASSISTANCE_TYPES[i] \in pending'[1]
               /\ StoreError([Current EXCEPT !.unreachable = pending'[1]], ASSISTANCE_TYPES[i],
                             RegisteredOperation(ASSISTANCE_TYPES[i],
                                                 ASSISTANCE_OPERATION_KEY_INITIATION),
                             StatementContext(CHOOSE s \in Statements : TRUE, 0)) # None)
              => /\ \A j \in DOMAIN ASSISTANCE_TYPES :
                        j > i => \E k \in DOMAIN last'.log :
                                    /\ last'.log[k].assistance_type_key = ASSISTANCE_TYPES[j]
                                    /\ last'.log[k].operation_key
                                           = ASSISTANCE_OPERATION_KEY_INITIATION
                 /\ \A a_id \in DOMAIN assistance :
                        assistance[a_id].assistance_state.status \in {INITIATED, IN_PROGRESS}
                        => \A n \in DOMAIN assistance[a_id].next_operation_keys :
                              \E k \in DOMAIN last'.log :
                                  /\ last'.log[k].a_id = a_id
                                  /\ last'.log[k].operation_key
                                         = assistance[a_id].next_operation_keys[n]]_vars

\* C25: a registration that names a key which is already registered in the
\* definition, or names a key twice, raises AssistanceOperationException, and
\* no registration replaces the operation registered for a key.
C25_RegisteredKeysAreUnique ==
    [][/\ (\/ \E i \in DOMAIN registry'.call :
                 registry'.call[i].operation_key \in DOMAIN registry.operations
           \/ \E i, j \in DOMAIN registry'.call :
                 i # j /\ registry'.call[i].operation_key = registry'.call[j].operation_key)
          => registry'.err = "AssistanceOperationException"
       /\ \A key \in DOMAIN registry.operations :
             /\ key \in DOMAIN registry'.operations
             /\ registry'.operations[key] = registry.operations[key]]_vars

\* C26: scheduling an operation with a context that holds a value which
\* cannot be serialized fails with
\* AssistanceOperationCanNotBeScheduledException and writes no scheduled
\* operation.
C26_UnserializableContextIsRefused ==
    [][(/\ last'.kind = "schedule"
        /\ pending'[1].err = None
        /\ \E k \in DOMAIN pending'[1].parameter_dict :
              ~Encodable(pending'[1].parameter_dict[k]))
       => /\ last'.err = "AssistanceOperationCanNotBeScheduledException"
          /\ operations' = operations]_vars

\* the executions of operations that require an instance in progress and
\* whose _execute returned None without raising
ExecutedAbsent ==
    {x \in Executions :
        /\ x.applicable /\ x.absent /\ x.err = None
        /\ RegisteredOperation(x.assistance_type_key,
                               x.operation_key).assistance_in_progress_required}

\* the stored instance of x has the declared state and the keys of the
\* TRIGGERED follow-ups, every SCHEDULED follow-up is stored as a new entry
\* for the instance, and no object but state updates was added
AbsentProcessed(x) ==
    /\ x.persisted = <<x.a_id>>
    /\ x.after.assistance[x.a_id].assistance_state
           = AssistanceState(x.target_status,
                             PhaseNumber(x.assistance_type_key, x.operation_key),
                             x.operation_key)
    /\ x.after.assistance[x.a_id].next_operation_keys
           = OperationKeys(SeqFilterKeys(x.subsequent_operations, TRIGGERED_OPERATION))
    /\ \A i \in DOMAIN x.subsequent_operations :
          x.subsequent_operations[i].type = SCHEDULED_OPERATION
          => \E k \in DOMAIN x.after.operations :
                /\ \A j \in DOMAIN x.before.operations :
                      x.before.operations[j].id # x.after.operations[k].id
                /\ x.after.operations[k].a_id = x.a_id
                /\ x.after.operations[k].assistance_operation_key
                       = x.subsequent_operations[i].operation_key
                /\ x.after.operations[k].time_of_invocation
                       = x.time + x.subsequent_operations[i].time_to_invocation_in_s * TimeFactor
    /\ \A o \in (x.before.objects + 1)..x.after.objects : objects[o].key = "state_update"

\* C27 as stated: when an operation that requires an instance in progress
\* returns an absent result, the engine loads the instance with no produced
\* object and persists and schedules as for a result: the declared status,
\* phase, step and TRIGGERED keys are written and every SCHEDULED follow-up is
\* scheduled.
C27_AbsentResultIsProcessed ==
    \A x \in ExecutedAbsent : AbsentProcessed(x)

\* C27 as the code has it: the same unless the operation set
\* prevent_progress, in which case the state and the next operation keys stay
\* as they were and nothing is scheduled.
C27_AbsentResultIsProcessedUnlessPrevented ==
    \A x \in ExecutedAbsent :
        IF ~x.prevent_progress THEN AbsentProcessed(x)
        ELSE /\ x.persisted = <<x.a_id>>
             /\ x.after.assistance[x.a_id].assistance_state
                    = x.before.assistance[x.a_id].assistance_state
             /\ x.after.assistance[x.a_id].next_operation_keys
                    = x.before.assistance[x.a_id].next_operation_keys
             /\ x.after.operations = x.before.operations

\* a progress report with another value than the expected one made the wait
\* return None, and the follow-up of the wait was scheduled
C27_Witness ==
    \E x \in ExecutedAbsent :
        /\ ~x.prevent_progress
        /\ x.operation_key = "review_solution_peer_step_3"
        /\ \E i \in DOMAIN x.subsequent_operations :
              x.subsequent_operations[i].type = SCHEDULED_OPERATION
        /\ Len(x.after.operations) > 0

\* the ids of the objects stored by the executions of the last invocation
AddedByLast ==
    UNION {(x.before.objects + 1)..x.after.objects : x \in Executions}

\* C28: the instances returned for an invocation hold exactly the objects the
\* invocation produced and stored: none that was stored before it or by
\* another invocation, and every one stored by an execution that returned
\* its instance.
C28_ReturnedObjectsAreTheAddedOnes ==
    last.kind \in {"request", "event", "response", "write"} =>
        /\ \A i \in DOMAIN last.returned :
              Range(last.returned[i].assistance_objects) \subseteq AddedByLast
        /\ \A x \in Executions :
              x.applicable /\ ~x.absent /\ x.err = None /\ x.persisted # <<>>
              => \A ao_id \in (x.before.objects + 1)..x.after.objects :
                    \E i \in DOMAIN last.returned :
                        ao_id \in Range(last.returned[i].assistance_objects)

\* C29: for an execution that persists an instance without prevent_progress,
\* every state update object it stores carries the status, phase and step it
\* writes as the state of the instance, also when it creates the instance.
C29_StateUpdateCarriesTheWrittenState ==
    \A x \in Executions :
        x.applicable /\ x.err = None /\ ~x.prevent_progress
        => \A i \in DOMAIN x.persisted :
              \A ao_id \in (x.before.objects + 1)..x.after.objects :
                  /\ objects[ao_id].key = "state_update"
                  /\ objects[ao_id].a_id = x.persisted[i]
                  => objects[ao_id].state
                         = x.after.assistance[x.persisted[i]].assistance_state

\* the state update objects of the last computation are one for each of users
OnePerUser(users) ==
    /\ {last.returned[i].user_id : i \in DOMAIN last.returned} = Range(users)
    /\ \A i, j \in DOMAIN last.returned :
          last.returned[i].user_id = last.returned[j].user_id => i = j
    /\ \A i \in DOMAIN last.returned : last.returned[i].key = "state_update"

Synthesized == last.kind = "state_update" /\ last.returned # <<>>

\* C30 as stated: the users that receive a synthesized state update are the
\* users the operation set as its override if it did, else the related users
\* of the instance if it has any, else the owner of the instance alone; one
\* state update object is produced for each of them.
C30_StateUpdateUsers ==
    Synthesized =>
        OnePerUser(IF pending[1].op.related_set THEN pending[1].op.related_user_ids
                   ELSE IF pending[1].assistance.related_user_ids # <<>>
                        THEN pending[1].assistance.related_user_ids
                   ELSE <<pending[1].assistance.user_id>>)

\* C30 as the code has it: the override and the related users count only for
\* an operation registered with send_state_update_to_related_users on; for
\* one registered with it off the owner alone receives the state update.
C30_StateUpdateUsersWhenSentToRelated ==
    Synthesized =>
        OnePerUser(IF ~pending[1].op.send_state_update_to_related_users
                   THEN <<pending[1].assistance.user_id>>
                   ELSE IF pending[1].op.related_set THEN pending[1].op.related_user_ids
                   ELSE IF pending[1].assistance.related_user_ids # <<>>
                        THEN pending[1].assistance.related_user_ids
                   ELSE <<pending[1].assistance.user_id>>)

\* the abort of the offer of assistance options on an instance with related
\* users: the state update goes to the owner alone
C30_Witness ==
    /\ Synthesized
    /\ pending[1].op.cls = "AbortOfferAssistanceOptionsNoOptionSelected"
    /\ pending[1].assistance.related_user_ids = <<"u2">>
    /\ pending[1].assistance.user_id = "u1"
    /\ Len(last.returned) = 1 /\ last.returned[1].user_id = "u1"

\* the operation registered for the step at place i of phase p
RegisteredFor(p, i) ==
    last.returned[CHOOSE k \in DOMAIN last.returned :
                      last.returned[k].operation_key = pending[1][p][i].operation_key].operation

\* the follow-up that links to the step at place i of phase p
LinkTo(p, i) ==
    IF pending[1][p][i].schedule = 0
    THEN SubsequentAssistanceOperation(TRIGGERED_OPERATION, pending[1][p][i].operation_key, 0)
    ELSE SubsequentAssistanceOperation(SCHEDULED_OPERATION, pending[1][p][i].operation_key,
                                       pending[1][p][i].schedule)

\* C31: _register_phases appends to the subsequent operations of every step
\* but the last step of the last phase one follow-up for the next step in
\* the order of registration, across phases, TRIGGERED if the next step has
\* no schedule and SCHEDULED with its delay otherwise, and it makes every
\* step but the first step of the first phase require an instance in progress.
C31_StepsAreLinked ==
    last.kind = "register" =>
        \A p \in DOMAIN pending[1] : \A i \in DOMAIN pending[1][p] :
            /\ RegisteredFor(p, i).subsequent_operations
                   = pending[1][p][i].operation.subsequent_operations
                     \o (IF i < Len(pending[1][p]) THEN <<LinkTo(p, i + 1)>>
                         ELSE IF p < Len(pending[1]) THEN <<LinkTo(p + 1, 1)>>
                         ELSE <<>>)
            /\ RegisteredFor(p, i).assistance_in_progress_required
                   = (IF p = 1 /\ i = 1
                      THEN pending[1][p][i].operation.assistance_in_progress_required
                      ELSE TRUE)

\* two phases were registered and the last step of the first was linked to
\* the scheduled first step of the second
C31_Witness ==
    /\ last.kind = "register"
    /\ Len(pending[1]) = 2 /\ Len(pending[1][1]) = 2
    /\ pending[1][2][1].schedule = 5
    /\ ~pending[1][1][2].operation.assistance_in_progress_required
    /\ RegisteredFor(1, 2).subsequent_operations = <<LinkTo(2, 1)>>

\* C32: the cleanup tick deletes only scheduled operations that have been due
\* for the retention window of one hour or longer; an entry not yet due, or
\* due for less than the window, stays.
C32_CleanupDeletesOnlyExpired ==
    [][last'.kind = "cleanup" =>
          \A i \in DOMAIN operations :
              (\A j \in DOMAIN operations' : operations'[j].id # operations[i].id)
              => operations[i].time_of_invocation + RetentionWindow <= now]_vars

\* a cleanup deleted an entry and left a younger one in the store
C32_Witness ==
    /\ last.kind = "cleanup"
    /\ last.due # <<>>
    /\ \E i \in DOMAIN operations : operations[i].time_of_invocation + RetentionWindow > now

\* C33: chained resolution ends for the registered processes: the requests
\* the operations construct form no cycle, so the recursion of a request goes
\* no deeper than one chained request, invokes no more operations than the
\* request and its chained requests, and every request taken up is resolved.
C33_ChainedResolutionEnds ==
    /\ [](last.kind = "resolve" =>
             /\ \A i \in DOMAIN pending : pending[i].depth <= 1
             /\ Len(last.returned) + Len(pending) <= 1 + MaxChained)
    /\ (pending # <<>>) ~> (pending = <<>>)

\* the initiation of an offer aborted the offers the user had in progress
C33_Witness ==
    /\ last.kind = "resolve"
    /\ pending = <<>>
    /\ Len(last.returned) = 1 + MaxChained
    /\ last.returned[1].request = AssistanceRequest(OFFER, ASSISTANCE_OPERATION_KEY_INITIATION)
    /\ last.returned[2].depth = 1

\* the number of the step of the entry of user_id in the progress map of the
\* stored instance d, 0 without an entry
ProgressOf(d, user_id) ==
    IF d.user_states[user_id] = NoState \/ d.user_states[user_id].step = None THEN 0
    ELSE registered_operation_keys_to_step_number(d.user_states[user_id].step)

\* C34: the step number of the entry of a user in the progress map of an
\* instance never decreases, whatever is invoked.
C34_ProgressNeverDecreases ==
    [][\A a_id \in DOMAIN assistance : \A u \in Users :
          ProgressOf(assistance'[a_id], u) >= ProgressOf(assistance[a_id], u)]_vars

\* the executions of the request for the solutions that did not abort
RequestsForSolutions ==
    {x \in Executions :
        /\ x.applicable /\ x.err = None /\ ~x.absent
        /\ RegisteredOperation(x.assistance_type_key, x.operation_key).cls = "RequestSolution"
        /\ x.target_status # ABORTED}

\* the number of solution requests x stored for user_id
RequestedOf(x, user_id) ==
    Cardinality({ao_id \in (x.before.objects + 1)..x.after.objects :
                    /\ objects[ao_id].key = "operation"
                    /\ objects[ao_id].user_id = user_id})

\* C35: the request for the solutions bound to step s sends no request to a
\* related user whose entry in the progress map is at a step after s, and one
\* to every related user whose entry is at s or before it or who has none.
C35_RequestSkipsUsersAhead ==
    \A x \in RequestsForSolutions :
        \A u \in Range(x.before.assistance[x.a_id].related_user_ids) :
            RequestedOf(x, u)
                = (IF ProgressOf(x.before.assistance[x.a_id], u)
                          > registered_operation_keys_to_step_number(x.operation_key)
                   THEN 0 ELSE 1)

\* the executions that the update of the instance refused
Rejected ==
    {x \in Executions :
        x.err \in {"CompletedAssistanceModifyException", "AssistanceNotExistsException"}}

\* the scheduled operations of the instance a_id among ops
OwnedBy(ops, a_id) == {ops[i] : i \in {j \in DOMAIN ops : ops[j].a_id = a_id}}

MaxDirectiveInvocations == 4

\* the operation object that the execution x leaves behind
LeftBy(x) ==
    [DeclaredOperation(x.assistance_type_key, x.operation_key) EXCEPT
        !.target_status = x.target_status,
        !.prevent_progress = x.prevent_progress,
        !.delete_scheduled_operations = x.delete_scheduled_operations,
        !.subsequent_operations = x.subsequent_operations]

Live == IF pending = <<>> THEN <<>> ELSE pending[1].live

ExecutedKeys(log) ==
    {<<log[i].assistance_type_key, log[i].operation_key>> : i \in DOMAIN log}

LastOf(log, k) ==
    log[CHOOSE i \in DOMAIN log :
            /\ <<log[i].assistance_type_key, log[i].operation_key>> = k
            /\ \A j \in DOMAIN log :
                   <<log[j].assistance_type_key, log[j].operation_key>> = k => j <= i]

Observed(log) ==
    [started |-> {[key |-> k, operation |-> RegisteredOperation(k[1], k[2])] :
                     k \in ExecutedKeys(log)},
     found |-> Live,
     live |-> [k \in DOMAIN Live \cup ExecutedKeys(log) |->
                  IF k \in ExecutedKeys(log) THEN LeftBy(LastOf(log, k)) ELSE Live[k]]]

\* assistance_by_request, the operation objects observed
DirectiveRequest ==
    /\ budget > 0
    /\ \E rq \in GroupRequests :
          \E r \in {assistance_by_request(Current, rq[1], rq[2], rq[3])} :
              /\ Commit(r.w)
              /\ last' = Invocation("request", rq[3].a_id, r.w, r.assistance, <<>>, <<>>)
              /\ pending' = <<Observed(r.w.log)>>
    /\ budget' = budget - 1
    /\ UNCHANGED <<now, settings>>

\* update_assistance, the operation objects observed
DirectiveResponse ==
    /\ budget > 0
    /\ \E a_id \in 1..(Len(assistance) + 1), o \in GroupResponses :
          \E r \in {update_assistance(Current, a_id, <<o>>)} :
              /\ Commit(r.w)
              /\ last' = Invocation("response", a_id, r.w, r.assistance, <<>>, <<>>)
              /\ pending' = <<Observed(r.w.log)>>
    /\ budget' = budget - 1
    /\ UNCHANGED <<now, settings>>

NextDirectives ==
    \/ DirectiveRequest
    \/ DirectiveResponse

SpecDirectives == Start(MaxDirectiveInvocations, Settings) /\ [][NextDirectives]_vars

MaxSnapshotInvocations == 4

SnapshotBegin(response_objects) ==
    /\ budget > 0
    /\ pending = <<>>
    /\ \E a_id \in DOMAIN assistance, o \in response_objects :
          \E w1 \in {update_assistance_by_a_id_adding_assistance_objects(
                          Current, a_id, AsResponse(<<o>>))} :
              /\ ~Failed(w1)
              /\ w1.assistance[a_id].next_operation_keys # <<>>
              /\ pending' = [i \in 1..Len(w1.assistance[a_id].next_operation_keys) |->
                                <<w1.assistance[a_id].type_key,
                                  w1.assistance[a_id].next_operation_keys[i],
                                  ResponseContext(a_id, AsResponse(<<o>>))>>]
              /\ Commit(w1)
              /\ last' = Invocation("stored", a_id, w1, <<>>, <<>>, <<>>)
    /\ budget' = budget - 1
    /\ UNCHANGED <<now, settings>>

\* one iteration of the loop of update_assistance
SnapshotInvoke ==
    /\ pending # <<>>
    /\ \E r \in {Swallow(handle_assistance_request(Current, Head(pending)[1], Head(pending)[2],
                                                   Head(pending)[3]), Current)} :
          /\ Commit(r.w)
          /\ last' = Invocation("continuation", Head(pending)[3].a_id, r.w, r.assistance,
                                <<>>, <<>>)
    /\ pending' = Tail(pending)
    /\ UNCHANGED <<now, settings, budget>>

NextSnapshot ==
    \/ HandleRequest(GroupRequests)
    \/ AppendResponse(GroupResponses)
    \/ SnapshotBegin(GroupResponses)
    \/ SnapshotInvoke

SpecSnapshot == Start(MaxSnapshotInvocations, Settings) /\ [][NextSnapshot]_vars

\* the operations executed as continuations of a response
Continuations ==
    IF last.kind \in {"response", "continuation"}
    THEN {x \in Executions : x.applicable}
    ELSE {}

\* C38: a continuation that update_assistance invokes is, when it is invoked,
\* one of the stored next operation keys of the instance, and the instance is
\* not terminal.
C38_ContinuationIsStoredKey ==
    \A x \in Continuations :
        /\ x.operation_key \in Range(x.before.assistance[x.a_id].next_operation_keys)
        /\ x.before.assistance[x.a_id].assistance_state.status \notin TerminalStatus

\* The life of the scheduled operations: at most MaxEntries are written, by
\* requests, events and sweeps; time passes without limit up to the times
\* at which the stored entries are due or expire.  The cleanup tick fires
\* every 600 seconds whatever else happens, hence the weak fairness of
\* RetentionSweep and of the passage of time; nothing is assumed about the
\* due sweep, whose handling of an entry may fail at every attempt.
MaxEventualInvocations == 1
MaxEntries == 4
MaxTimeEventually == 50000

NextEventually ==
    \/ HandleRequest(GroupRequests) /\ op_counter' <= MaxEntries
    \/ HandleEvent /\ op_counter' <= MaxEntries
    \/ DueSweep({{}} \cup {{DueNow[i].id} : i \in DOMAIN DueNow}) /\ op_counter' <= MaxEntries
    \/ RetentionSweep
    \/ Advance(MaxTimeEventually)
    \/ Expire(MaxTimeEventually)

SpecEventually ==
    /\ Start(MaxEventualInvocations, Settings)
    /\ [][NextEventually]_vars
    /\ WF_vars(RetentionSweep)
    /\ WF_vars(Expire(MaxTimeEventually))

\* the scheduled operation with the identifier id is in the store
StoredOperation(id) == \E i \in DOMAIN operations : operations[i].id = id

MaxSimulations == 2
MaxStatements == 2

\* the distance between the timestamps of consecutive statements and the
\* time factor submitted
Gaps == {1}

TimeFactors == {2}

\* the statements submitted: first logins
SubmittedStatements == {s \in Statements : s.verb = "logged_in" /\ s.experiences = 1}

SimulatedStatements(simulation_id, n, statement, gap) ==
    [i \in 1..n |-> [id |-> [simulation |-> simulation_id, position |-> i, last |-> i = n],
                     statement |-> statement,
                     timestamp |-> (i - 1) * gap]]

\* assistance_by_simulation followed by create_statement_simulation
assistance_by_simulation(store, simulation_id, statements, time_factor) ==
    Append(store, [simulation_id |-> simulation_id,
                   next_statement |-> Head(statements),
                   subsequent_statements |-> Tail(statements),
                   time_factor |-> time_factor,
                   time_of_invocation |-> now])

\* read_statement_simulations_by_time_of_invocation_before_date
read_statement_simulations_by_time_of_invocation_before_date(store, date) ==
    SelectSeq(store, LAMBDA s : s.time_of_invocation <= date)

delete_statement_simulation_by_simulation_id(store, simulation_id) ==
    SelectSeq(store, LAMBDA s : s.simulation_id # simulation_id)

\* update_statement_simulation for a simulation that is stored
update_statement_simulation(store, simulation) ==
    [i \in DOMAIN store |->
        IF store[i].simulation_id = simulation.simulation_id THEN simulation ELSE store[i]]

\* the simulation after its next statement was taken: the statement that
\* follows gets the time of its simulation as its timestamp
Advanced(simulation) ==
    Let(now + (Head(simulation.subsequent_statements).timestamp
                   - simulation.next_statement.timestamp) * simulation.time_factor,
        LAMBDA next_simulation_point :
            [simulation EXCEPT
                !.next_statement = [Head(simulation.subsequent_statements) EXCEPT
                                       !.timestamp = next_simulation_point],
                !.subsequent_statements = Tail(@),
                !.time_of_invocation = next_simulation_point])

\* variant: the record of a simulation is kept when its last statement is taken
RECURSIVE TakeStatements_Keeping(_, _, _)
TakeStatements_Keeping(store, due, taken) ==
    IF due = <<>> THEN [store |-> store, taken |-> taken]
    ELSE IF Head(due).subsequent_statements = <<>>
    THEN TakeStatements_Keeping(store, Tail(due), Append(taken, Head(due).next_statement))
    ELSE TakeStatements_Keeping(update_statement_simulation(store, Advanced(Head(due))),
                                Tail(due), Append(taken, Head(due).next_statement))

\* the first loop of check_statements_to_simulate over the simulations read
RECURSIVE TakeStatements(_, _, _)
TakeStatements(store, due, taken) ==
    IF due = <<>> THEN [store |-> store, taken |-> taken]
    ELSE IF Head(due).subsequent_statements = <<>>
    THEN TakeStatements(delete_statement_simulation_by_simulation_id(
                            store, Head(due).simulation_id),
                        Tail(due), Append(taken, Head(due).next_statement))
    ELSE TakeStatements(update_statement_simulation(store, Advanced(Head(due))),
                        Tail(due), Append(taken, Head(due).next_statement))

\* the second loop of check_statements_to_simulate: an exception that leaves
\* assistance_by_statement ends the loop.  The store cannot be reached during
\* the call numbered outage.
RECURSIVE DispatchStatements(_, _, _, _, _)
DispatchStatements(w, statements, outage, k, dispatched) ==
    IF statements = <<>> \/ Failed(w) THEN [w |-> w, dispatched |-> dispatched]
    ELSE Let(assistance_by_statement(
                 [w EXCEPT !.unreachable = IF k = outage THEN {GREETING} ELSE {}],
                 Head(statements).statement),
             LAMBDA r : DispatchStatements(r.w, Tail(statements), outage, k + 1,
                                           Append(dispatched, Head(statements).id)))

DueSimulations == read_statement_simulations_by_time_of_invocation_before_date(pending, now)

\* request for a simulation (simulate_xapi_statement_execution)
CreateSimulation ==
    /\ budget > 0
    /\ \E n \in 1..MaxStatements, statement \in SubmittedStatements, gap \in Gaps,
          time_factor \in TimeFactors :
          pending' = assistance_by_simulation(
                         pending, MaxSimulations - budget + 1,
                         SimulatedStatements(MaxSimulations - budget + 1, n, statement, gap),
                         time_factor)
    /\ budget' = budget - 1
    /\ UNCHANGED <<assistance, objects, operations, op_counter, now, settings, last,
                   requested, registry>>

\* tick of scheduled_check_for_statements_to_simulate
CheckStatementsToSimulate ==
    /\ DueSimulations # <<>>
    /\ \E outage \in 0..Len(DueSimulations) :
          \E t \in {TakeStatements(pending, DueSimulations, <<>>)} :
              \E r \in {DispatchStatements(Current, t.taken, outage, 1, <<>>)} :
                  /\ pending' = t.store
                  /\ Commit(r.w)
                  /\ last' = [Invocation("simulate", 0, r.w, last.returned \o r.dispatched,
                                         DueSimulations,
                                         last.swept \o [i \in DOMAIN t.taken |-> t.taken[i].id])
                                 EXCEPT !.err = IF last.err # None THEN last.err ELSE r.w.err]
    /\ UNCHANGED <<now, settings, budget>>

\* passage of time up to the next time at which a simulation is due
SimulationAdvance ==
    /\ \E t \in {pending[i].time_of_invocation : i \in DOMAIN pending} :
          /\ t > now
          /\ \A i \in DOMAIN pending :
                pending[i].time_of_invocation > now => t <= pending[i].time_of_invocation
          /\ now' = t
    /\ UNCHANGED <<assistance, objects, operations, op_counter, settings, budget, pending,
                   last, requested, registry>>

NextSimulation ==
    \/ CreateSimulation
    \/ CheckStatementsToSimulate
    \/ SimulationAdvance

SpecSimulation ==
    Start(MaxSimulations, {s \in Settings : ~s.debug}) /\ [][NextSimulation]_vars

Taken == last.swept

Dispatched == last.returned

OfSimulation(ids, s) == SelectSeq(ids, LAMBDA id : id.simulation = s)

\* the statements of every simulation appear in ids in list order, each once,
\* none left out
InListOrder(ids) ==
    \A s \in 1..MaxSimulations :
        \A i \in DOMAIN OfSimulation(ids, s) : OfSimulation(ids, s)[i].position = i

\* a simulation is stored as long as its last statement has not been taken
RemovedWithLastStatement ==
    \A s \in 1..(MaxSimulations - budget) :
        (\E i \in DOMAIN pending : pending[i].simulation_id = s)
            <=> ~(\E i \in DOMAIN Taken : Taken[i].simulation = s /\ Taken[i].last)

\* the ids d are among the ids t, in the order of t, none twice
Subsequence(d, t) ==
    /\ \A i \in DOMAIN d : \E j \in DOMAIN t : t[j] = d[i]
    /\ \A i, j \in DOMAIN d :
          i < j => \E k, l \in DOMAIN t : k < l /\ t[k] = d[i] /\ t[l] = d[j]

\* a tick takes at most one statement of a simulation
OnePerTick ==
    \A s \in 1..MaxSimulations :
        Len(OfSimulation(Taken', s)) <= Len(OfSimulation(Taken, s)) + 1

\* C40: every statement of a simulation is handed to the event handler once,
\* in list order and at most one of a simulation in a tick, and the
\* simulation is removed when its last statement is taken.
C40_StatementsAreDispatchedOnceInOrder ==
    [][/\ Dispatched' = Taken'
       /\ InListOrder(Taken')
       /\ OnePerTick
       /\ RemovedWithLastStatement']_vars

\* C40, amended: every statement of a simulation is taken once, in list
\* order and at most one of a simulation in a tick, and the simulation is
\* removed when its last statement is taken; the statements taken are handed
\* to the event handler in that order and none twice, and all of them as long
\* as no exception has left a tick.
C40_StatementsAreTakenOnceInOrder ==
    [][/\ Subsequence(Dispatched', Taken')
       /\ last'.err = None => Dispatched' = Taken'
       /\ InListOrder(Taken')
       /\ OnePerTick
       /\ RemovedWithLastStatement']_vars

\* two simulations of two statements each went through, and a call of the
\* event handler raised on the way
C40_Witness ==
    /\ budget = 0
    /\ pending = <<>>
    /\ Len(Taken) = MaxSimulations * MaxStatements
    /\ last.err # None
    /\ Len(Dispatched) < Len(Taken)

====
